---- MODULE Spec2Model ----
(***************************************************************************)
(* Model of the financial-report pipeline of crawler/:                     *)
(*   - service/pdf_service.py      page fan-out over the completion call   *)
(*   - service/mongodb_service.py  ticker-keyed document store gateway     *)
(*   - service/langchain_embedding_service.py  chunk / embed / replace     *)
(* Each part has its own specification over the shared variables; the      *)
(* variables of the other parts stay at their initial value.               *)
(***************************************************************************)
EXTENDS Integers, Sequences, FiniteSets, TLC

\* ------------------------------------------------------------------ bounds
\* Largest number of pages of a modelled PDF.
MaxPages == 3

\* ------------------------------------------------------------ small helpers
Range(s) == {s[i] : i \in 1..Len(s)}

IsStrictlyAscending(s) == \A i \in 1..(Len(s) - 1) : s[i] < s[i + 1]

\* =========================================================================
\* Part 1: PDFDownloadService.process_pdf_with_gpt (service/pdf_service.py)
\* =========================================================================
VARIABLES
    readable,       \* whether fitz can open and read the downloaded file
    pages,          \* number of pages of the PDF (len(doc))
    coord,          \* position of the process_pdf_with_gpt coroutine
    task,           \* task[i]: state of the page task of page i
    gather_results, \* gather's result list, one slot per awaitable, in argument order
    completion_order, \* page numbers in the order their tasks settled
    calls,          \* calls[i]: completion calls issued for page i
    ret             \* the dict returned by process_pdf_with_gpt, or NoResult

pdf_vars == <<readable, pages, coord, task, gather_results, completion_order, calls, ret>>

\* The document store behind MongoDBService (service/mongodb_service.py).
VARIABLES
    db_connected,   \* core.mongodb.database is not None (connect_to_mongo got that far)
    docs,           \* the documents of the collection
    next_id,        \* the next ObjectId the server hands out
    now,            \* the wall clock read by datetime.now()
    call_no,        \* number of gateway calls made so far
    last,           \* the gateway call that finished last
    prev,           \* the gateway call that finished before it
    last_writer,    \* last_writer[t]: number of the call whose upsert of ticker t
                    \* the server applied last (0: none)
    writers         \* writers[w]: the upsert request handler w is in the middle of

store_vars == <<db_connected, docs, next_id, now, call_no, last, prev, last_writer, writers>>

\* The vector store behind LangChainEmbeddingService
\* (service/langchain_embedding_service.py).
VARIABLES
    points,         \* the points (chunks) of the Qdrant collection
    next_point,     \* the next point id aadd_documents generates
    embed_no,       \* number of embed_and_store_document calls made so far
    embedders,      \* embedders[e]: the embed_and_store_document call e is in
    embed_last      \* the embed_and_store_document call that returned last

embed_vars == <<points, next_point, embed_no, embedders, embed_last>>

\* LangChainEmbeddingService.hybrid_search.
VARIABLES
    search,         \* position of the hybrid_search call, and its limit
    vector_results, \* what search_similar_documents returned
    keyword_results,\* what search_keywords returned
    final_results   \* what hybrid_search returned

search_vars == <<search, vector_results, keyword_results, final_results>>

\* The request handlers of api/routers/stock_router.py and pdf_router.py.
VARIABLES
    request         \* the pipeline request being served: its route, ticker,
                    \* position and response

request_vars == <<request>>

vars == <<pdf_vars, store_vars, embed_vars, search_vars, request_vars>>

\* "mock_document_id", returned when no database object exists (lines 26-28, 83-85).
mock_document_id == 0

\* A document id no document has (no call has returned one).
NoId == 0 - 1

\* The record kept of a finished gateway call: what was called, on which
\* ticker, how it ended, what it returned, and the ticker's first document
\* and number of documents right after the call.
NoDoc == [exists |-> FALSE]
NoCall == [op |-> "none", stock_code |-> "none", outcome |-> "none", id |-> NoId,
           ok |-> FALSE, doc_after |-> NoDoc, count_after |-> 0, call |-> 0]

Tickers == {"T1", "T2"}
Writers == {"w1", "w2"}
IdleWriter == [pc |-> "idle"]
Embedders == {"e1", "e2"}
IdleEmbedder == [pc |-> "idle"]
\* No embed_and_store_document call has returned yet.
NoEmbed == [returned |-> FALSE]

\* The values the variables of a part keep while another part runs.
PdfIdle ==
    /\ readable = FALSE
    /\ pages = 0
    /\ coord = "idle"
    /\ task = <<>>
    /\ gather_results = <<>>
    /\ completion_order = <<>>
    /\ calls = <<>>
    /\ ret = [returned |-> FALSE]

StoreIdle ==
    /\ db_connected = TRUE
    /\ docs = {}
    /\ next_id = 1
    /\ now = 1
    /\ call_no = 0
    /\ last = NoCall
    /\ prev = NoCall
    /\ last_writer = [t \in Tickers |-> 0]
    /\ writers = [w \in Writers |-> IdleWriter]

EmbedIdle ==
    /\ points = {}
    /\ next_point = 1
    /\ embed_no = 0
    /\ embedders = [e \in Embedders |-> IdleEmbedder]
    /\ embed_last = NoEmbed

SearchIdle ==
    /\ search = [pc |-> "idle", limit |-> 0]
    /\ vector_results = <<>>
    /\ keyword_results = <<>>
    /\ final_results = <<>>

NoRequest == [pc |-> "idle"]
RequestIdle == request = NoRequest

NoResult == [returned |-> FALSE]
\* A slot of gather's result list whose awaitable has not settled yet.
Pending == [settled |-> FALSE, exception |-> FALSE, page_number |-> 0,
            gpt_response |-> [type |-> "raw", keywords |-> "absent",
                              summary |-> "absent", category |-> "absent"]]

\* What json.loads(result_text) can yield, by the shapes the later code
\* distinguishes.  type: "dict" | "str" (a JSON string) | "other" (list,
\* number, null).
\* keywords: "absent" | "str_list" | "unhashable_list" | "not_list"
\* summary:  "absent" | "str" | "non_str"
\* category: "absent" | "hashable" | "unhashable"
JsonValue(t, k, s, c) == [type |-> t, keywords |-> k, summary |-> s, category |-> c]

JsonValues ==
    { JsonValue("dict", "str_list", "str", "hashable"),
      JsonValue("dict", "absent", "absent", "absent"),
      JsonValue("dict", "not_list", "str", "absent"),
      JsonValue("dict", "unhashable_list", "absent", "absent"),
      JsonValue("dict", "absent", "non_str", "absent"),
      JsonValue("dict", "absent", "absent", "unhashable"),
      JsonValue("dict_with_raw_response", "absent", "str", "absent"),
      JsonValue("str", "absent", "absent", "absent"),
      JsonValue("other", "absent", "absent", "absent") }

\* parsed_result = {"raw_response": result_text}
RawResponse == JsonValue("raw", "absent", "absent", "absent")

\* Outcomes of client.chat.completions.create for one page:
\*   call "raised"                    the call raised (timeout, API error)
\*   call "ok", content "none"        message.content is None
\*   call "ok", content "text"        content is not JSON
\*   call "ok", content "json"        content parses to json
Completion(call, content, json) == [call |-> call, content |-> content, json |-> json]

Completions ==
    { Completion("raised", "none", RawResponse),
      Completion("ok", "none", RawResponse),
      Completion("ok", "text", RawResponse) }
    \cup { Completion("ok", "json", j) : j \in JsonValues }

\* json.loads(result_text) with the JSONDecodeError fallback (lines 229-233);
\* json.loads(None) raises TypeError, which the fallback does not catch.
ParseRaises(c) == c.content = "none"
parsed_result(c) == IF c.content = "json" THEN c.json ELSE RawResponse

\* PDFDownloadService._process_page_with_gpt: the page result, or the
\* exception re-raised by the outer handler (lines 243-245).
Raised == [settled |-> TRUE, exception |-> TRUE, page_number |-> 0, gpt_response |-> RawResponse]

process_page_with_gpt(page_number, c) ==
    IF c.call = "raised" \/ ParseRaises(c)
    THEN Raised
    ELSE [settled |-> TRUE, exception |-> FALSE,
          page_number |-> page_number, gpt_response |-> parsed_result(c)]

\* isinstance(gpt_response, dict)
IsDict(g) == g.type \in {"dict", "dict_with_raw_response", "raw"}

\* isinstance(result, Exception)
IsException(r) == r.exception

\* PDFDownloadService._integrate_page_results.  The set updates raise
\* TypeError on unhashable members, " ".join raises TypeError on a summary
\* that is not a string.
IntegrateRaises(page_results) ==
    \E i \in 1..Len(page_results) :
        LET g == page_results[i].gpt_response IN
        /\ IsDict(g)
        /\ \/ g.keywords = "unhashable_list"
           \/ g.category = "unhashable"
           \/ g.summary = "non_str"

HasSummary(r) == IsDict(r.gpt_response) /\ r.gpt_response.summary # "absent"

\* Lines 279-283: the page numbers of the results that carry a summary.
RECURSIVE page_summaries(_)
page_summaries(page_results) ==
    IF page_results = <<>> THEN <<>>
    ELSE IF HasSummary(Head(page_results))
         THEN <<Head(page_results).page_number>> \o page_summaries(Tail(page_results))
         ELSE page_summaries(Tail(page_results))

\* Faulty variant: without the guard of lines 257-258 an empty list goes
\* through the general branch and comes out unflagged.
integrate_page_results_unguarded(page_results) ==
    [error |-> FALSE,
     total_pages_processed |-> Len(page_results),
     page_summaries |-> page_summaries(page_results)]

\* Lines 257-258 and 260-294: an empty list gives {"error": ...}.
integrate_page_results(page_results) ==
    IF page_results = <<>>
    THEN [error |-> TRUE, total_pages_processed |-> 0, page_summaries |-> <<>>]
    ELSE [error |-> FALSE,
          total_pages_processed |-> Len(page_results),
          page_summaries |-> page_summaries(page_results)]

\* Lines 168-176: the partition of gather's result list, by position.
RECURSIVE successful_results_from(_, _)
successful_results_from(results, i) ==
    IF i > Len(results) THEN <<>>
    ELSE IF IsException(results[i]) THEN successful_results_from(results, i + 1)
         ELSE <<results[i]>> \o successful_results_from(results, i + 1)

RECURSIVE failed_pages_from(_, _)
failed_pages_from(results, i) ==
    IF i > Len(results) THEN <<>>
    ELSE IF IsException(results[i]) THEN <<i>> \o failed_pages_from(results, i + 1)
         ELSE failed_pages_from(results, i + 1)

\* Faulty variant: the successes are collected as the tasks finish (as_completed),
\* not by position in gather's list.
RECURSIVE successful_results_in_completion_order(_, _)
successful_results_in_completion_order(results, k) ==
    IF k > Len(completion_order) THEN <<>>
    ELSE LET r == results[completion_order[k]] IN
         IF IsException(r) THEN successful_results_in_completion_order(results, k + 1)
         ELSE <<r>> \o successful_results_in_completion_order(results, k + 1)

successful_results_as_completed(results) ==
    successful_results_in_completion_order(results, 1)

successful_results(results) == successful_results_from(results, 1)

\* Faulty variant: the failed page is recorded by its 0-based index i, not i+1.
RECURSIVE failed_indexes_from(_, _)
failed_indexes_from(results, i) ==
    IF i > Len(results) THEN <<>>
    ELSE IF IsException(results[i]) THEN <<i - 1>> \o failed_indexes_from(results, i + 1)
         ELSE failed_indexes_from(results, i + 1)

failed_pages_zero_based(results) == failed_indexes_from(results, 1)

failed_pages(results) == failed_pages_from(results, 1)

\* Faulty variant: successful_pages counts gather's whole result list.
integrated_result_counting_all(n_pages, results) ==
    [returned |-> TRUE,
     total_pages |-> n_pages,
     successful_pages |-> Len(results),
     failed_pages |-> failed_pages(results),
     page_results |-> successful_results(results),
     integrated_summary |-> integrate_page_results(successful_results(results))]

\* Lines 179-185.
integrated_result(n_pages, results) ==
    [returned |-> TRUE,
     total_pages |-> n_pages,
     successful_pages |-> Len(successful_results(results)),
     failed_pages |-> failed_pages(results),
     page_results |-> successful_results(results),
     integrated_summary |-> integrate_page_results(successful_results(results))]

\* Faulty variant: gather without return_exceptions resumes its awaiter at the
\* first exception.
GatherDone_first_exception(t) ==
    \/ \A i \in DOMAIN t : t[i] \in {"ok", "failed"}
    \/ \E i \in DOMAIN t : t[i] = "failed"

\* asyncio.gather(*tasks, return_exceptions=True) resumes its awaiter once
\* every awaitable has settled.
GatherDone(t) == \A i \in DOMAIN t : t[i] \in {"ok", "failed"}

PdfInit ==
    /\ readable \in BOOLEAN
    /\ pages \in 0..MaxPages
    /\ coord = "split"
    /\ task = [i \in 1..pages |-> "none"]
    /\ gather_results = [i \in 1..pages |-> Pending]
    /\ completion_order = <<>>
    /\ calls = [i \in 1..pages |-> 0]
    /\ ret = NoResult
    /\ StoreIdle
    /\ EmbedIdle
    /\ SearchIdle
    /\ RequestIdle

\* Faulty variant: an unreadable file yields the pages read so far instead of
\* raising.
SplitPdfByPages_partial ==
    /\ coord = "split"
    /\ coord' = "spawn"
    /\ UNCHANGED <<readable, pages, task, gather_results, completion_order, calls, ret>>
    /\ UNCHANGED <<store_vars, embed_vars, search_vars, request_vars>>

\* Line 156: pages = await self.split_pdf_by_pages(file_path).
SplitPdfByPages ==
    /\ coord = "split"
    /\ coord' = IF readable THEN "spawn" ELSE "raised_extraction"
    /\ UNCHANGED <<readable, pages, task, gather_results, completion_order, calls, ret>>
    /\ UNCHANGED <<store_vars, embed_vars, search_vars, request_vars>>

\* Lines 159-165: one coroutine per page, all handed to gather, which
\* schedules every one of them before the coordinator suspends.
GatherStart ==
    /\ coord = "spawn"
    /\ task' = [i \in 1..pages |-> "running"]
    /\ coord' = "gather"
    /\ UNCHANGED <<readable, pages, gather_results, completion_order, calls, ret>>
    /\ UNCHANGED <<store_vars, embed_vars, search_vars, request_vars>>

\* A page task runs _process_page_with_gpt up to its await of
\* client.chat.completions.create (lines 211-217): the request is sent and
\* the task is suspended until it is answered, while its siblings run.
PageTaskCalls(i) ==
    /\ coord = "gather"
    /\ task[i] = "running"
    /\ task' = [task EXCEPT ![i] = "awaiting"]
    /\ calls' = [calls EXCEPT ![i] = @ + 1]
    /\ UNCHANGED <<readable, pages, coord, gather_results, completion_order, ret>>
    /\ UNCHANGED <<store_vars, embed_vars, search_vars, request_vars>>

\* The request of page i is answered or raises, and the task runs
\* _process_page_with_gpt to its end (lines 227-245).
PageTaskSettles(i, c) ==
    /\ coord = "gather"
    /\ task[i] = "awaiting"
    /\ LET r == process_page_with_gpt(i, c) IN
       /\ task' = [task EXCEPT ![i] = IF IsException(r) THEN "failed" ELSE "ok"]
       /\ gather_results' = [gather_results EXCEPT ![i] = r]
    /\ completion_order' = Append(completion_order, i)
    /\ UNCHANGED <<readable, pages, coord, calls, ret>>
    /\ UNCHANGED <<store_vars, embed_vars, search_vars, request_vars>>

\* Lines 165-192: gather resumes the coordinator, which partitions the
\* results and builds the integrated result, or re-raises what
\* _integrate_page_results raised.
GatherReturns ==
    /\ coord = "gather"
    /\ GatherDone(task)
    /\ IF IntegrateRaises(successful_results(gather_results))
       THEN coord' = "raised" /\ ret' = NoResult
       ELSE coord' = "returned" /\ ret' = integrated_result(pages, gather_results)
    /\ UNCHANGED <<readable, pages, task, gather_results, completion_order, calls>>
    /\ UNCHANGED <<store_vars, embed_vars, search_vars, request_vars>>

PdfNext ==
    \/ SplitPdfByPages
    \/ GatherStart
    \/ \E i \in 1..pages : PageTaskCalls(i)
    \/ \E i \in 1..pages, c \in Completions : PageTaskSettles(i, c)
    \/ GatherReturns

SpecPdf == PdfInit /\ [][PdfNext]_vars

\* ----------------------------------------------------------- claims, part 1
Finished == coord \in {"returned", "raised"}
FailedSet == {i \in 1..pages : task[i] = "failed"}
OkSet == {i \in 1..pages : task[i] = "ok"}
PageNumbers(rs) == [k \in 1..Len(rs) |-> rs[k].page_number]

\* The sorted sequence of a finite set of integers.
RECURSIVE Ascending(_)
Ascending(S) ==
    IF S = {} THEN <<>>
    ELSE LET m == CHOOSE x \in S : \A y \in S : x <= y
         IN <<m>> \o Ascending(S \ {m})

\* C1: every ProcessingResult returned for an N-page document has
\* total_pages = N = successful_pages + |failed_pages| and
\* successful_pages = |page_results|, whatever subset of pages failed.
C1_PageCountsAddUp ==
    coord = "returned" =>
        /\ ret.total_pages = pages
        /\ ret.total_pages = ret.successful_pages + Len(ret.failed_pages)
        /\ ret.successful_pages = Len(ret.page_results)

\* A returned result of a document in which some pages failed and some did not.
C1_Witness ==
    /\ coord = "returned"
    /\ FailedSet # {} /\ OkSet # {}
    /\ ret.total_pages = MaxPages

\* C2: every exception of a page's completion call or of the handling of its
\* response is recorded as that page's failure, and process_pdf_with_gpt
\* returns a ProcessingResult: once the pages were extracted it never raises
\* for the whole document because of what a page's response holds.
C2_PageFailuresIsolated ==
    Finished =>
        /\ coord = "returned"
        /\ Range(ret.failed_pages) = FailedSet

\* C3: every page gets its task when the fan-out starts, a task that fails
\* changes neither a sibling task nor the coordinator's position, and the
\* coordinator leaves the gather only when every task has settled.
C3_FanInWaitsForAll ==
    [][ /\ (coord = "spawn" /\ coord' = "gather")
            => \A i \in 1..pages : task'[i] = "running"
        /\ \A i \in 1..pages :
              (task[i] \in {"running", "awaiting"} /\ task'[i] = "failed")
                  => /\ coord' = coord
                     /\ \A j \in (1..pages) \ {i} : task'[j] = task[j]
        /\ (coord = "gather" /\ coord' # "gather")
              => \A i \in 1..pages : task[i] \in {"ok", "failed"}
      ]_vars

\* The coordinator has returned although the first task to settle had failed
\* while a sibling, still running then, went on to succeed.
C3_Witness ==
    /\ coord = "returned"
    /\ Len(completion_order) >= 2
    /\ task[completion_order[1]] = "failed"
    /\ task[completion_order[Len(completion_order)]] = "ok"

\* C4: page_results is in strictly ascending page_number order for every
\* order in which the page tasks completed.
C4_PageResultsInPageOrder ==
    coord = "returned" => IsStrictlyAscending(PageNumbers(ret.page_results))

\* A returned result whose successful pages completed in descending order.
C4_Witness ==
    /\ coord = "returned"
    /\ Len(ret.page_results) >= 2
    /\ \A k \in 1..(Len(completion_order) - 1) :
          completion_order[k] > completion_order[k + 1]

\* C5: failed_pages is the ascending list of the pages that failed and
\* page_results holds one result for each page that did not fail.
C5_FailedAndSuccessfulPartition ==
    coord = "returned" =>
        /\ ret.failed_pages = Ascending(FailedSet)
        /\ PageNumbers(ret.page_results) = Ascending(OkSet)
        /\ Range(ret.failed_pages) \cap Range(PageNumbers(ret.page_results)) = {}
        /\ Range(ret.failed_pages) \cup Range(PageNumbers(ret.page_results)) = 1..pages

\* Three pages, page 2 failed: total_pages=3, successful_pages=2, failed_pages=[2].
C5_Witness ==
    /\ coord = "returned"
    /\ pages = 3
    /\ FailedSet = {2}
    /\ ret.total_pages = 3 /\ ret.successful_pages = 2 /\ ret.failed_pages = <<2>>
    /\ PageNumbers(ret.page_results) = <<1, 3>>


\* =========================================================================
\* Part 2: MongoDBService (service/mongodb_service.py), one call at a time
\* =========================================================================
\* Bound on the number of gateway calls of one behaviour.
MaxStoreCalls == 3

\* stock_code is None
NoTicker == "none"
\* A field the document does not have.
Absent == "absent"
\* A document_id that is not the 24-hex-digit form ObjectId() accepts.
InvalidId == 0 - 2

\* utils/document_processor.py, combine_page_results lines 27-33: the
\* content of one page's section.
section_content(gpt_response) ==
    IF gpt_response.type \in {"raw", "dict_with_raw_response"} THEN "raw_response_text"
    ELSE IF gpt_response.type = "str" THEN "response_text"
    ELSE "str_of_response"

\* Faulty variant: the sections come out last page first.
combine_page_results_reversed(page_results) ==
    [k \in 1..Len(page_results) |->
        [page_number |-> page_results[Len(page_results) + 1 - k].page_number,
         content |-> section_content(page_results[Len(page_results) + 1 - k].gpt_response)]]

\* combine_page_results: one "## page N" section per page result, in the
\* order of the list, joined by newlines.
combine_page_results(page_results) ==
    [k \in 1..Len(page_results) |->
        [page_number |-> page_results[k].page_number,
         content |-> section_content(page_results[k].gpt_response)]]

\* Two pipeline runs used as inputs: a one-page document whose page came
\* back as plain text, and a two-page document whose second page failed.
GptResultA ==
    integrated_result(1,
        << process_page_with_gpt(1, Completion("ok", "text", RawResponse)) >>)

GptResultB ==
    integrated_result(2,
        << process_page_with_gpt(1,
               Completion("ok", "json", JsonValue("dict", "absent", "str", "absent"))),
           process_page_with_gpt(2, Completion("raised", "none", RawResponse)) >>)

\* What download_pdf returns (lines 89-97), by the file it names.
pdf_data(file) ==
    [filename |-> file, original_url |-> file, file_size |-> file,
     content_type |-> "application/pdf", download_time |-> file]

Runs ==
    { [gpt |-> GptResultA, pdf |-> pdf_data("a.pdf"), prompt_type |-> "default",
       has_gpt_processing_result |-> TRUE],
      [gpt |-> GptResultB, pdf |-> pdf_data("b.pdf"), prompt_type |-> "custom",
       has_gpt_processing_result |-> FALSE] }

Statuses == {"archived", "completed"}

\* The fields of a stored document other than its id.
DataFields ==
    {"stock_code", "filename", "original_url", "file_size", "content_type",
     "download_time", "parsed_content", "total_pages", "successful_pages",
     "failed_pages", "prompt_type", "status", "updated_at", "created_at",
     "success_yn"}

\* "written_by" is a history field: the number of the call that last wrote
\* each data field (0: never written).
AllFields == DataFields \cup {"id", "written_by"}

\* save_processed_document lines 92-105: the $set document.
processed_document(stock_code, gpt_result, pdf_metadata, t) ==
    [stock_code |-> stock_code,
     filename |-> pdf_metadata.filename,
     original_url |-> pdf_metadata.original_url,
     file_size |-> pdf_metadata.file_size,
     content_type |-> pdf_metadata.content_type,
     download_time |-> pdf_metadata.download_time,
     parsed_content |-> combine_page_results(gpt_result.page_results),
     total_pages |-> gpt_result.total_pages,
     successful_pages |-> gpt_result.successful_pages,
     failed_pages |-> gpt_result.failed_pages,
     status |-> "completed",
     updated_at |-> t]

\* save_pdf_document lines 30-53: the $set document.  The processing result
\* is read from metadata["gpt_processing_result"], {} when the key is missing.
pdf_document(stock_code, run, t) ==
    [filename |-> run.pdf.filename,
     original_url |-> run.pdf.original_url,
     file_size |-> run.pdf.file_size,
     content_type |-> run.pdf.content_type,
     download_time |-> run.pdf.download_time,
     stock_code |-> stock_code,
     parsed_content |->
         IF run.has_gpt_processing_result
         THEN combine_page_results(run.gpt.page_results) ELSE <<>>,
     total_pages |-> IF run.has_gpt_processing_result THEN run.gpt.total_pages ELSE 0,
     successful_pages |->
         IF run.has_gpt_processing_result THEN run.gpt.successful_pages ELSE 0,
     failed_pages |-> IF run.has_gpt_processing_result THEN run.gpt.failed_pages ELSE <<>>,
     prompt_type |-> run.prompt_type,
     status |-> "processed",
     updated_at |-> t]

\* The document a filter {"stock_code": t} or {"_id": id} selects: the first
\* match in insertion order.
Matching(D, t) == {d \in D : d.stock_code = t}
FirstOf(S) == CHOOSE d \in S : \A e \in S : d.id <= e.id
WithId(D, id) == {d \in D : d.id = id}

\* $set on an existing document.
SetFields(doc, set, call) ==
    [f \in AllFields |->
        IF f = "written_by"
        THEN [g \in DataFields |-> IF g \in DOMAIN set THEN call ELSE doc.written_by[g]]
        ELSE IF f \in DOMAIN set THEN set[f] ELSE doc[f]]

\* The document an insert creates from the fields given.
NewDocument(id, fields, call) ==
    [f \in AllFields |->
        IF f = "written_by"
        THEN [g \in DataFields |-> IF g \in DOMAIN fields THEN call ELSE 0]
        ELSE IF f = "id" THEN id
        ELSE IF f \in DOMAIN fields THEN fields[f] ELSE Absent]

\* collection.update_one({"stock_code": t}, {"$set": set, "$setOnInsert":
\* {"created_at": created_at}}, upsert=True), lines 63-67 and 114-118.
update_one_upsert(D, t, set, created_at, id, call) ==
    IF Matching(D, t) # {}
    THEN (D \ {FirstOf(Matching(D, t))})
         \cup {SetFields(FirstOf(Matching(D, t)), set, call)}
    ELSE D \cup {NewDocument(id, set @@ [created_at |-> created_at], call)}

\* The record of a finished call.
DocAfter(D, t) ==
    IF Matching(D, t) # {} THEN [exists |-> TRUE, doc |-> FirstOf(Matching(D, t))]
    ELSE NoDoc

CallRecord(op, t, outcome, id, ok, D, call) ==
    [op |-> op, stock_code |-> t, outcome |-> outcome, id |-> id, ok |-> ok,
     doc_after |-> DocAfter(D, t), count_after |-> Cardinality(Matching(D, t)),
     call |-> call]

\* A call ends before it has sent a request, or with its only request: it
\* is recorded, and the clock has moved on by the time the next call reads it.
Finish(rec, ticks) ==
    /\ prev' = last
    /\ last' = rec
    /\ call_no' = call_no + 1
    /\ now' = now + ticks + 1

\* A call has run up to its first await of a request: handler w is now in
\* the middle of it.
Begin(w, r, ticks) ==
    /\ writers' = [writers EXCEPT ![w] = r]
    /\ call_no' = call_no + 1
    /\ now' = now + ticks + 1
    /\ UNCHANGED <<last, prev>>

\* A handler's return after a request: the call is recorded and the
\* handler is free again.
Return(w, rec) ==
    /\ prev' = last
    /\ last' = rec
    /\ writers' = [writers EXCEPT ![w] = IdleWriter]

StoreInit ==
    /\ PdfIdle
    /\ EmbedIdle
    /\ SearchIdle
    /\ RequestIdle
    /\ db_connected \in BOOLEAN
    /\ docs = {}
    /\ next_id = 1
    /\ now = 1
    /\ call_no = 0
    /\ last = NoCall
    /\ prev = NoCall
    /\ last_writer = [t \in Tickers |-> 0]
    /\ writers = [w \in Writers |-> IdleWriter]

UpsertOps == {"save_processed_document", "save_pdf_document"}

set_document(op, t, run, time) ==
    IF op = "save_processed_document"
    THEN processed_document(t, run.gpt, run.pdf, time)
    ELSE pdf_document(t, run, time)

\* save_processed_document / save_pdf_document up to their first await of a
\* request.  datetime.now() is read for updated_at (lines 52, 104) and again
\* for created_at (lines 60, 76, 111): the second reading is the same
\* instant or a later one.  With a ticker the request is update_one with
\* upsert=True (lines 63-67, 114-118); save_pdf_document without one sends
\* insert_one (lines 74-78).
WriterCalls(w, op, t, run) ==
    /\ IF ~db_connected
       THEN /\ Finish(CallRecord(op, t, "returned", mock_document_id, TRUE, docs,
                                 call_no + 1), 0)
            /\ UNCHANGED writers
       ELSE \E tick \in {0, 1} :
              Begin(w, [pc |-> IF t = NoTicker THEN "insert_one" ELSE "update_one",
                        op |-> op, stock_code |-> t, call |-> call_no + 1,
                        set |-> set_document(op, IF t = NoTicker THEN Absent ELSE t,
                                             run, now),
                        created_at |-> now + tick], tick)
    /\ UNCHANGED <<db_connected, docs, next_id, last_writer>>
    /\ UNCHANGED <<pdf_vars, embed_vars, search_vars, request_vars>>

\* MongoDBService.save_processed_document(stock_code, gpt_result, pdf_metadata).
SaveProcessedDocument(w, t, run) ==
    /\ writers[w].pc = "idle"
    /\ call_no < MaxStoreCalls
    /\ WriterCalls(w, "save_processed_document", t, run)

\* MongoDBService.save_pdf_document(pdf_data).
SavePdfDocument(w, t, run) ==
    /\ writers[w].pc = "idle"
    /\ call_no < MaxStoreCalls
    /\ WriterCalls(w, "save_pdf_document", t, run)

\* update_one(..., upsert=True) at the server, which serves an upsert on a
\* field without a unique index (the service creates none) in two phases.
\* The query phase: a matching document is updated in place; without one
\* the request goes on to insert.  Or the server cannot be reached and
\* update_one raises.
ServerQueryPhase(w) ==
    /\ writers[w].pc = "update_one"
    /\ LET r == writers[w] IN
       \/ /\ Matching(docs, r.stock_code) # {}
          /\ docs' = update_one_upsert(docs, r.stock_code, r.set, r.created_at,
                                       next_id, r.call)
          /\ last_writer' = [last_writer EXCEPT ![r.stock_code] = r.call]
          /\ writers' = [writers EXCEPT ![w].pc = "find_one"]
          /\ UNCHANGED <<last, prev>>
       \/ /\ Matching(docs, r.stock_code) = {}
          /\ writers' = [writers EXCEPT ![w].pc = "insert"]
          /\ UNCHANGED <<docs, last_writer, last, prev>>
       \/ /\ Return(w, CallRecord(r.op, r.stock_code, "raised", NoId, FALSE, docs,
                                  r.call))
          /\ UNCHANGED <<docs, last_writer>>
    /\ UNCHANGED <<db_connected, next_id, now, call_no>>
    /\ UNCHANGED <<pdf_vars, embed_vars, search_vars, request_vars>>

\* The server's insert phase, and the handler's return of
\* str(result.upserted_id) (lines 69-70, 121-122).
ServerInsertPhase(w) ==
    /\ writers[w].pc = "insert"
    /\ LET r == writers[w]
           D == docs \cup {NewDocument(next_id,
                               r.set @@ [created_at |-> r.created_at], r.call)}
       IN /\ docs' = D
          /\ last_writer' = [last_writer EXCEPT ![r.stock_code] = r.call]
          /\ Return(w, CallRecord(r.op, r.stock_code, "returned", next_id, TRUE, D,
                                  r.call))
    /\ next_id' = next_id + 1
    /\ UNCHANGED <<db_connected, now, call_no>>
    /\ UNCHANGED <<pdf_vars, embed_vars, search_vars, request_vars>>

\* Lines 72-73, 125-126: existing_doc = await collection.find_one(filter);
\* existing_doc["_id"] raises TypeError when the document is gone by now,
\* and find_one raises when the server cannot be reached; in both cases the
\* write of update_one stays applied.
WriterFindsOne(w) ==
    /\ writers[w].pc = "find_one"
    /\ LET r == writers[w] IN
       \/ IF Matching(docs, r.stock_code) = {}
          THEN Return(w, CallRecord(r.op, r.stock_code, "raised", NoId, FALSE, docs,
                                    r.call))
          ELSE Return(w, CallRecord(r.op, r.stock_code, "returned",
                                    FirstOf(Matching(docs, r.stock_code)).id, TRUE,
                                    docs, r.call))
       \/ Return(w, CallRecord(r.op, r.stock_code, "raised", NoId, FALSE, docs,
                               r.call))
    /\ UNCHANGED <<db_connected, docs, next_id, now, call_no, last_writer>>
    /\ UNCHANGED <<pdf_vars, embed_vars, search_vars, request_vars>>

\* save_pdf_document lines 76-78: insert_one of a document without ticker,
\* or the server cannot be reached and insert_one raises.
InsertOne(w) ==
    /\ writers[w].pc = "insert_one"
    /\ LET r == writers[w]
           D == docs \cup {NewDocument(next_id,
                               r.set @@ [created_at |-> r.created_at], r.call)}
       IN \/ /\ docs' = D
             /\ next_id' = next_id + 1
             /\ Return(w, CallRecord(r.op, r.stock_code, "returned", next_id, TRUE, D,
                                     r.call))
          \/ /\ UNCHANGED <<docs, next_id>>
             /\ Return(w, CallRecord(r.op, r.stock_code, "raised", NoId, FALSE, docs,
                                     r.call))
    /\ UNCHANGED <<db_connected, now, call_no, last_writer>>
    /\ UNCHANGED <<pdf_vars, embed_vars, search_vars, request_vars>>

\* MongoDBService.update_document_status(document_id, status) up to its
\* await of update_one (lines 163-176): False without a database object,
\* InvalidId from ObjectId() for an id of the wrong form; else
\* datetime.now() is read for updated_at (line 173) and the request is sent.
UpdateDocumentStatus(w, id, status) ==
    /\ writers[w].pc = "idle"
    /\ call_no < MaxStoreCalls
    /\ IF ~db_connected
       THEN /\ Finish(CallRecord("update_document_status", NoTicker, "returned",
                                 id, FALSE, docs, call_no + 1), 0)
            /\ UNCHANGED writers
       ELSE IF id = InvalidId
       THEN /\ Finish(CallRecord("update_document_status", NoTicker, "raised",
                                 id, FALSE, docs, call_no + 1), 0)
            /\ UNCHANGED writers
       ELSE Begin(w, [pc |-> "status_update_one", op |-> "update_document_status",
                      stock_code |-> NoTicker, call |-> call_no + 1, id |-> id,
                      status |-> status, updated_at |-> now], 0)
    /\ UNCHANGED <<db_connected, docs, next_id, last_writer>>
    /\ UNCHANGED <<pdf_vars, embed_vars, search_vars, request_vars>>

\* The server applies the update_one of a status update, with the timestamp
\* the call read before it sent the request, and the call returns
\* modified_count > 0 (line 177): False when no document has the id or the
\* document already holds the two values.  Or the server cannot be reached:
\* update_one raises and the document stays as it was.
ServerUpdatesStatus(w) ==
    /\ writers[w].pc = "status_update_one"
    /\ LET r == writers[w]
           hit == WithId(docs, r.id)
           modified == \E d \in hit : d.status # r.status \/ d.updated_at # r.updated_at
           D == IF modified
                THEN (docs \ hit) \cup
                     {SetFields(FirstOf(hit),
                                [status |-> r.status, updated_at |-> r.updated_at],
                                r.call)}
                ELSE docs
       IN \/ /\ docs' = D
             /\ Return(w, CallRecord(r.op, NoTicker, "returned", r.id, modified, D,
                                     r.call))
          \/ /\ docs' = docs
             /\ Return(w, CallRecord(r.op, NoTicker, "raised", r.id, FALSE, docs,
                                     r.call))
    /\ UNCHANGED <<db_connected, next_id, now, call_no, last_writer>>
    /\ UNCHANGED <<pdf_vars, embed_vars, search_vars, request_vars>>

\* MongoDBService.delete_document(document_id) up to the find_one of
\* get_pdf_document (lines 182, 134): False without a database object,
\* InvalidId from ObjectId() for an id of the wrong form.
DeleteDocument(w, id) ==
    /\ writers[w].pc = "idle"
    /\ call_no < MaxStoreCalls
    /\ IF ~db_connected
       THEN /\ Finish(CallRecord("delete_document", NoTicker, "returned",
                                 id, FALSE, docs, call_no + 1), 0)
            /\ UNCHANGED writers
       ELSE IF id = InvalidId
       THEN /\ Finish(CallRecord("delete_document", NoTicker, "raised",
                                 id, FALSE, docs, call_no + 1), 0)
            /\ UNCHANGED writers
       ELSE Begin(w, [pc |-> "delete_find_one", op |-> "delete_document",
                      stock_code |-> NoTicker, call |-> call_no + 1, id |-> id], 0)
    /\ UNCHANGED <<db_connected, docs, next_id, last_writer>>
    /\ UNCHANGED <<pdf_vars, embed_vars, search_vars, request_vars>>

\* Lines 182-184: the find_one answers; without a document the call
\* returns False, with one it goes on to delete_one.  Or find_one raises.
DeleteFindsOne(w) ==
    /\ writers[w].pc = "delete_find_one"
    /\ LET r == writers[w] IN
       \/ IF WithId(docs, r.id) = {}
          THEN Return(w, CallRecord(r.op, NoTicker, "returned", r.id, FALSE, docs,
                                    r.call))
          ELSE /\ writers' = [writers EXCEPT ![w].pc = "delete_one"]
               /\ UNCHANGED <<last, prev>>
       \/ Return(w, CallRecord(r.op, NoTicker, "raised", r.id, FALSE, docs, r.call))
    /\ UNCHANGED <<db_connected, docs, next_id, now, call_no, last_writer>>
    /\ UNCHANGED <<pdf_vars, embed_vars, search_vars, request_vars>>

\* Lines 192-193: delete_one by id, and deleted_count > 0 is returned.  Or
\* delete_one raises and the document stays.
DeleteDeletesOne(w) ==
    /\ writers[w].pc = "delete_one"
    /\ LET r == writers[w]
           D == docs \ WithId(docs, r.id)
       IN \/ /\ docs' = D
             /\ Return(w, CallRecord(r.op, NoTicker, "returned", r.id, D # docs, D,
                                     r.call))
          \/ /\ docs' = docs
             /\ Return(w, CallRecord(r.op, NoTicker, "raised", r.id, FALSE, docs,
                                     r.call))
    /\ UNCHANGED <<db_connected, next_id, now, call_no, last_writer>>
    /\ UNCHANGED <<pdf_vars, embed_vars, search_vars, request_vars>>

\* Faulty variant: the sort is ascending, so the oldest document stays.
Newest_keeping_oldest(S) ==
    CHOOSE d \in S :
        \A e \in S : \/ d.updated_at < e.updated_at
                     \/ d.updated_at = e.updated_at /\ d.id <= e.id

\* cleanup_duplicate_documents line 221: the document sorted first by
\* updated_at descending (the sort is stable: of equal timestamps the
\* first in insertion order comes first).
Newest(S) ==
    CHOOSE d \in S :
        \A e \in S : \/ d.updated_at > e.updated_at
                     \/ d.updated_at = e.updated_at /\ d.id <= e.id

\* The ids of a group's documents in the order of that sort.
RECURSIVE sorted_ids(_)
sorted_ids(S) ==
    IF S = {} THEN <<>>
    ELSE <<Newest(S).id>> \o sorted_ids(S \ {Newest(S)})

\* The groups the aggregate of lines 203-213 returns: the tickers with
\* more than one document.
DuplicateTickers(D) ==
    {t \in {d.stock_code : d \in D} \ {Absent} : Cardinality(Matching(D, t)) > 1}

\* The orders in which the server may return the groups.
TickerOrders ==
    {o \in [1..Cardinality(Tickers) -> Tickers] : \A t \in Tickers : \E i \in DOMAIN o : o[i] = t}

\* Lines 216-226: the ids the loops send delete_one for, in order: of each
\* group all but the first of its sorted documents (docs[1:]).
RECURSIVE docs_to_remove(_, _, _)
docs_to_remove(D, order, i) ==
    IF i > Len(order) THEN <<>>
    ELSE (IF order[i] \in DuplicateTickers(D)
          THEN Tail(sorted_ids(Matching(D, order[i])))
          ELSE <<>>) \o docs_to_remove(D, order, i + 1)

\* The dict cleanup_duplicate_documents returns (lines 230-233), as a call
\* record: id is duplicate_stock_codes, count_after is total_removed.
CleanupRecord(outcome, ok, duplicate_stock_codes, total_removed, call) ==
    [CallRecord("cleanup_duplicate_documents", NoTicker, outcome,
                duplicate_stock_codes, ok, docs, call)
        EXCEPT !.count_after = total_removed]

\* MongoDBService.cleanup_duplicate_documents() up to the aggregate request.
CleanupDuplicateDocuments(w) ==
    /\ writers[w].pc = "idle"
    /\ call_no < MaxStoreCalls
    /\ IF ~db_connected
       THEN /\ Finish(CleanupRecord("returned", FALSE, 0, 0, call_no + 1), 0)
            /\ UNCHANGED writers
       ELSE Begin(w, [pc |-> "aggregate", op |-> "cleanup_duplicate_documents",
                      stock_code |-> NoTicker, call |-> call_no + 1], 0)
    /\ UNCHANGED <<db_connected, docs, next_id, last_writer>>
    /\ UNCHANGED <<pdf_vars, embed_vars, search_vars, request_vars>>

\* Line 213: the aggregate answers with the groups as they are now; the
\* call returns at once when there is nothing to remove, else it goes on
\* to its first delete_one (docs_before is a history field: the collection
\* the aggregate read).  Or the aggregate raises.
CleanupAggregates(w) ==
    /\ writers[w].pc = "aggregate"
    /\ LET r == writers[w]
           n == Cardinality(DuplicateTickers(docs))
       IN \/ \E order \in TickerOrders :
                LET queue == docs_to_remove(docs, order, 1) IN
                IF queue = <<>>
                THEN Return(w, CleanupRecord("returned", TRUE, n, 0, r.call))
                ELSE /\ writers' = [writers EXCEPT ![w] =
                            [pc |-> "cleanup_delete_one", op |-> r.op,
                             stock_code |-> NoTicker, call |-> r.call,
                             queue |-> queue, duplicate_stock_codes |-> n,
                             total_removed |-> 0, docs_before |-> docs]]
                     /\ UNCHANGED <<last, prev>>
          \/ Return(w, CleanupRecord("raised", FALSE, 0, 0, r.call))
    /\ UNCHANGED <<db_connected, docs, next_id, now, call_no, last_writer>>
    /\ UNCHANGED <<pdf_vars, embed_vars, search_vars, request_vars>>

\* Lines 224-226: one delete_one by id, counted whether or not it deleted
\* anything; after the last one the counts are returned.  Or delete_one
\* raises, with the deletes made so far applied.
CleanupDeletesOne(w) ==
    /\ writers[w].pc = "cleanup_delete_one"
    /\ LET r == writers[w]
           D == docs \ WithId(docs, Head(r.queue))
           removed == r.total_removed + 1
       IN \/ /\ docs' = D
             /\ IF Tail(r.queue) = <<>>
                THEN Return(w, [CallRecord(r.op, NoTicker, "returned",
                                           r.duplicate_stock_codes, TRUE, D, r.call)
                                   EXCEPT !.count_after = removed])
                ELSE /\ writers' = [writers EXCEPT ![w].queue = Tail(r.queue),
                                                   ![w].total_removed = removed]
                     /\ UNCHANGED <<last, prev>>
          \/ /\ docs' = docs
             /\ Return(w, CleanupRecord("raised", FALSE, 0, 0, r.call))
    /\ UNCHANGED <<db_connected, next_id, now, call_no, last_writer>>
    /\ UNCHANGED <<pdf_vars, embed_vars, search_vars, request_vars>>

DocumentIds == (1..(next_id - 1)) \cup {next_id, InvalidId}

\* Calls made one after the other: a call begins when none is under way.
\* (Upserts made one after the other leave no ticker with two documents, so
\* the cleanup has no delete_one to send here; part 6 has.)
StoreNext ==
    \/ \E t \in Tickers, run \in Runs : SaveProcessedDocument("w1", t, run)
    \/ \E t \in Tickers \cup {NoTicker}, run \in Runs : SavePdfDocument("w1", t, run)
    \/ \E id \in DocumentIds, status \in Statuses :
          UpdateDocumentStatus("w1", id, status)
    \/ ServerUpdatesStatus("w1")
    \/ \E id \in DocumentIds : DeleteDocument("w1", id)
    \/ CleanupDuplicateDocuments("w1")
    \/ ServerQueryPhase("w1")
    \/ ServerInsertPhase("w1")
    \/ WriterFindsOne("w1")
    \/ InsertOne("w1")
    \/ DeleteFindsOne("w1")
    \/ DeleteDeletesOne("w1")
    \/ CleanupAggregates("w1")

SpecStore == StoreInit /\ [][StoreNext]_vars
\* ----------------------------------------------------------- claims, part 2
SavedTwice ==
    /\ prev.op = "save_processed_document" /\ last.op = "save_processed_document"
    /\ prev.stock_code = last.stock_code
    /\ prev.outcome = "returned" /\ last.outcome = "returned"

\* C6: two calls of save_processed_document in a row for one ticker leave
\* exactly one document of that ticker, return the same document id, keep
\* created_at as it was after the first call and move updated_at forward.
C6_UpsertIdempotent ==
    SavedTwice =>
        /\ last.count_after = 1
        /\ last.id = prev.id
        /\ last.doc_after.doc.created_at = prev.doc_after.doc.created_at
        /\ last.doc_after.doc.updated_at > prev.doc_after.doc.updated_at

\* What the code does keep of C6: with a database object in place the two
\* calls behave as the claim says.
C6_HoldsWhenConnected == db_connected => C6_UpsertIdempotent

\* C8: an upsert onto an existing document of the ticker leaves no field
\* other than created_at (and the id) with a value an earlier call wrote.
UpsertedExisting ==
    /\ last.op \in {"save_processed_document", "save_pdf_document"}
    /\ last.stock_code \in Tickers
    /\ last.outcome = "returned"
    /\ last.doc_after.exists
    /\ last.doc_after.doc.written_by["created_at"] < last.call

C8_UpsertOverwritesAllButCreatedAt ==
    UpsertedExisting =>
        \A f \in DataFields \ {"created_at"} :
            last.doc_after.doc.written_by[f] \in {0, last.call}

\* =========================================================================
\* Part 3: the same gateway with overlapping requests: a handler may begin
\* a call while the other is between two requests of its own.
\* =========================================================================
StoreConcNext ==
    \/ \E w \in Writers, t \in Tickers, run \in Runs : SaveProcessedDocument(w, t, run)
    \/ \E w \in Writers, t \in Tickers \cup {NoTicker}, run \in Runs :
          SavePdfDocument(w, t, run)
    \/ \E w \in Writers, id \in DocumentIds, status \in Statuses :
          UpdateDocumentStatus(w, id, status)
    \/ \E w \in Writers : ServerUpdatesStatus(w)
    \/ \E w \in Writers, id \in DocumentIds : DeleteDocument(w, id)
    \/ \E w \in Writers : CleanupDuplicateDocuments(w)
    \/ \E w \in Writers : ServerQueryPhase(w)
    \/ \E w \in Writers : ServerInsertPhase(w)
    \/ \E w \in Writers : WriterFindsOne(w)
    \/ \E w \in Writers : InsertOne(w)
    \/ \E w \in Writers : DeleteFindsOne(w)
    \/ \E w \in Writers : DeleteDeletesOne(w)
    \/ \E w \in Writers : CleanupAggregates(w)
    \/ \E w \in Writers : CleanupDeletesOne(w)

SpecStoreConc == StoreInit /\ [][StoreConcNext]_vars

\* ----------------------------------------------------------- claims, part 3
AllWritersFinished == \A w \in Writers : writers[w].pc = "idle"

\* The fields every upsert sets and no other call writes.
UpsertOnlyFields ==
    {"filename", "original_url", "file_size", "content_type", "download_time",
     "parsed_content", "total_pages", "successful_pages", "failed_pages"}

\* C7: whatever the interleaving of overlapping upserts of one ticker with
\* update_status, delete and cleanup_duplicates, a ticker never has more than
\* one document, and once every writer has finished the document holds the
\* fields of the upsert the server applied last.
C7_OneDocumentPerTicker ==
    /\ \A t \in Tickers : Cardinality(Matching(docs, t)) <= 1
    /\ AllWritersFinished =>
          \A t \in Tickers : \A d \in Matching(docs, t) :
              \A f \in UpsertOnlyFields : d.written_by[f] = last_writer[t]

\* =========================================================================
\* Part 4: LangChainEmbeddingService.embed_and_store_document
\* (service/langchain_embedding_service.py) over the document store of
\* part 2 and the Qdrant collection.  A text is the sequence of its
\* sections, each one unit long; the splitter's sizes are in those units.
\* =========================================================================
\* Bound on the number of embed_and_store_document calls of one behaviour.
MaxEmbedCalls == 2

\* Bound on the number of document store calls made between them.
MaxEmbedStoreCalls == 1

\* settings.CHUNK_SIZE and settings.CHUNK_OVERLAP (half of it), in units.
ChunkSize == 2
ChunkOverlap == ChunkSize \div 2

\* The values of success_yn a stored document is found with.  No code of
\* the gateway writes the field; it is there or not when the document is.
SuccessFlags == {"Y", "N", Absent}

Section(n) == [page_number |-> n, content |-> "response_text"]
\* A report of three pages, longer than one chunk.
LongText == << Section(1), Section(2), Section(3) >>

\* A document that is in the collection when the service starts.
StoredDocument(id, t, flag, text) ==
    NewDocument(id,
        [stock_code |-> t, filename |-> "old.pdf", original_url |-> "old.pdf",
         file_size |-> "old.pdf", content_type |-> "application/pdf",
         download_time |-> "old.pdf", parsed_content |-> text,
         total_pages |-> Len(text), successful_pages |-> Len(text),
         failed_pages |-> <<>>, status |-> "completed", updated_at |-> 0,
         created_at |-> 0, success_yn |-> flag], 0)

\* MongoDBService.get_document_by_stock_code: None without a database
\* object, else find_one({"stock_code": t}).
get_document_by_stock_code(D, t) ==
    IF ~db_connected THEN NoDoc ELSE DocAfter(D, t)

\* Faulty variant: any document found is embedded, whatever its success_yn.
gate_ignoring_success_yn(document) == TRUE

\* Lines 525-526: success_yn = document.get("success_yn"); "Y" lets it on.
success_yn_allows(document) == document.success_yn = "Y"

\* create_langchain_documents: [] for an empty text, else one Document
\* with the whole text and the document's metadata.
create_langchain_documents(document) ==
    IF Len(document.parsed_content) = 0 THEN <<>>
    ELSE << [page_content |-> document.parsed_content,
             stock_code |-> document.stock_code,
             document_id |-> document.id] >>

\* RecursiveCharacterTextSplitter.split_text: chunks of at most ChunkSize
\* units, each starting ChunkSize - ChunkOverlap units after the one before.
RECURSIVE split_text(_)
split_text(text) ==
    IF Len(text) = 0 THEN <<>>
    ELSE IF Len(text) <= ChunkSize THEN << text >>
    ELSE << SubSeq(text, 1, ChunkSize) >>
         \o split_text(SubSeq(text, ChunkSize - ChunkOverlap + 1, Len(text)))

\* split_documents: every chunk carries a copy of its document's metadata.
split_documents(documents) ==
    IF documents = <<>> THEN <<>>
    ELSE LET chunks == split_text(documents[1].page_content) IN
         [i \in 1..Len(chunks) |->
             [page_content |-> chunks[i], stock_code |-> documents[1].stock_code,
              document_id |-> documents[1].document_id, chunk_number |-> 0]]

\* The decimal digits of n, most significant first (str(n)).
RECURSIVE Digits(_)
Digits(n) == IF n < 10 THEN <<n>> ELSE Append(Digits(n \div 10), n % 10)

\* Format spec "04d": zeros in front up to a width of 4, no cut beyond it.
ZeroPadded(n) ==
    LET ds == Digits(n) IN
    IF Len(ds) >= 4 THEN ds ELSE [k \in 1..(4 - Len(ds)) |-> 0] \o ds

\* f"{stock_code}_{i:04d}": the ticker, an underscore and the digits.
chunk_id(stock_code, i) ==
    [stock_code |-> stock_code, separator |-> "_", digits |-> ZeroPadded(i)]

\* Faulty variant: every chunk gets the number of the last one (one metadata
\* dict shared by all chunks).
add_chunk_numbers_shared_metadata(documents, stock_code) ==
    [i \in 1..Len(documents) |->
        [page_content |-> documents[i].page_content,
         document_id |-> documents[i].document_id,
         chunk_number |-> Len(documents),
         stock_code |-> stock_code,
         chunk_id |-> chunk_id(stock_code, Len(documents))]]

\* add_chunk_numbers: enumerate(documents, 1) gives chunk i the number i,
\* the ticker and the chunk_id.
add_chunk_numbers(documents, stock_code) ==
    [i \in 1..Len(documents) |->
        [page_content |-> documents[i].page_content,
         document_id |-> documents[i].document_id,
         chunk_number |-> i,
         stock_code |-> stock_code,
         chunk_id |-> chunk_id(stock_code, i)]]

\* vector_store.aadd_documents: one new point per chunk, under a fresh id.
aadd_documents(P, documents, first_id) ==
    P \cup { [id |-> first_id + i - 1,
              stock_code |-> documents[i].stock_code,
              chunk_number |-> documents[i].chunk_number,
              chunk_id |-> documents[i].chunk_id,
              page_content |-> documents[i].page_content,
              document_id |-> documents[i].document_id] : i \in 1..Len(documents) }

PointsOf(P, t) == {p \in P : p.stock_code = t}
PointsOfOthers(P, t) == {p \in P : p.stock_code # t}

\* Which vector store requests of one delete_documents_by_stock_code call
\* raise (the store is reached over the network).
Faults ==
    [check : BOOLEAN, count : BOOLEAN, delete1 : BOOLEAN, delete2 : BOOLEAN,
     delete3 : BOOLEAN, check_after : BOOLEAN]

\* check_document_exists: whether a scroll filtered on metadata.stock_code
\* finds a point; False when a request raises (lines 355-357).
check_document_exists(P, t, raises) ==
    IF raises THEN FALSE ELSE PointsOf(P, t) # {}

\* The three delete requests of lines 436-492 in the order they are sent:
\* filter key, filter value (str(stock_code) of a string is the string) and
\* whether the request raised.
delete_requests(t, f) ==
    << [key |-> "metadata.stock_code", value |-> t, raised |-> f.delete1],
       [key |-> "stock_code", value |-> t, raised |-> f.delete2],
       [key |-> "metadata.stock_code", value |-> t, raised |-> f.delete3] >>

\* The page size of the scroll requests that count the ticker's points.
scroll_limit == 1000

\* delete_documents_by_stock_code: returns 0 at once when the check finds
\* nothing or the count raises; else three deletes by filter, each in its
\* own try (the second filters on a payload key no point has), and a check.
\* before_count is the length of the first page of a scroll (lines 377-389).
delete_documents_by_stock_code(P, t, f) ==
    LET exists == check_document_exists(P, t, f.check)
        before_count == IF Cardinality(PointsOf(P, t)) > scroll_limit
                        THEN scroll_limit
                        ELSE Cardinality(PointsOf(P, t))
        P2 == IF ~f.delete1 \/ ~f.delete3 THEN PointsOfOthers(P, t) ELSE P
        exists_after == check_document_exists(P2, t, f.check_after)
    IN  IF ~exists \/ f.count \/ before_count = 0
        THEN [points |-> P, deleted_count |-> 0, delete_calls |-> <<>>]
        ELSE [points |-> P2,
              deleted_count |-> IF ~exists_after THEN before_count ELSE 0,
              delete_calls |-> delete_requests(t, f)]

\* The dict embed_and_store_document returns, with what the call did to
\* the vector store (history fields: text, delete_calls, add_calls,
\* own_unchanged: the call has left the ticker's points as they were,
\* request_unchanged: so has the whole request, the router's part included,
\* points_after, others_unchanged).
EmbedResult(r, success, found, flag, text, n_chunks, deletes, adds, P, others, own) ==
    [returned |-> TRUE, call |-> r.call, stock_code |-> r.stock_code,
     success |-> success, found |-> found, success_yn |-> flag,
     text |-> text, chunks_count |-> n_chunks,
     delete_calls |-> Len(deletes), delete_log |-> deletes, add_calls |-> adds,
     own_unchanged |-> own,
     request_unchanged |-> r.request_unchanged /\ own,
     deduplicate |-> r.deduplicate,
     points_after |-> P, others_unchanged |-> others]

EmbedReturns(e, result) ==
    /\ embed_last' = result
    /\ embedders' = [embedders EXCEPT ![e] = IdleEmbedder]

\* embed_and_store_document(stock_code) up to its first await.
EmbedCalls(e, t) ==
    /\ embedders[e].pc = "idle"
    /\ embed_no < MaxEmbedCalls
    /\ embed_no' = embed_no + 1
    /\ embedders' = [embedders EXCEPT ![e] =
                        [pc |-> "get_document", stock_code |-> t, call |-> embed_no + 1,
                         request_unchanged |-> TRUE,
                         deduplicate |-> FALSE]]
    /\ UNCHANGED <<points, next_point, embed_last>>
    /\ UNCHANGED <<pdf_vars, store_vars, search_vars, request_vars>>

\* Lines 516-558, from the answer of find_one to `await aadd_documents` or
\* to a return: nothing in between suspends (the Qdrant client is
\* synchronous and check/delete await nothing else).  When find_one raises
\* the service's get_document_by_stock_code returns None (lines 133-136)
\* and the call returns as if the ticker had no document.
EmbedGetsDocument(e) ==
    /\ embedders[e].pc = "get_document"
    /\ \E find_one_raises \in BOOLEAN :
       LET r == embedders[e]
           t == r.stock_code
           document == IF find_one_raises THEN NoDoc
                       ELSE get_document_by_stock_code(docs, t)
       IN IF ~document.exists
          THEN /\ EmbedReturns(e, EmbedResult(r, FALSE, FALSE, "none", <<>>, 0, <<>>, 0,
                                              points, TRUE, TRUE))
               /\ UNCHANGED points
          ELSE IF ~success_yn_allows(document.doc)
          THEN /\ EmbedReturns(e, EmbedResult(r, FALSE, TRUE, document.doc.success_yn,
                                              <<>>, 0, <<>>, 0, points, TRUE, TRUE))
               /\ UNCHANGED points
          ELSE \E f \in Faults :
                 LET del == delete_documents_by_stock_code(points, t, f)
                     langchain_docs == create_langchain_documents(document.doc)
                     split_docs == add_chunk_numbers(split_documents(langchain_docs), t)
                     others == PointsOfOthers(del.points, t) = PointsOfOthers(points, t)
                     own == PointsOf(del.points, t) = PointsOf(points, t)
                 IN /\ points' = del.points
                    /\ IF split_docs = <<>>
                       THEN EmbedReturns(e, EmbedResult(r, FALSE, TRUE, document.doc.success_yn,
                                            document.doc.parsed_content, 0,
                                            del.delete_calls, 0, del.points, others, own))
                       ELSE /\ embedders' = [embedders EXCEPT ![e] =
                                   [pc |-> "aadd_documents", stock_code |-> t,
                                    call |-> r.call,
                                    success_yn |-> document.doc.success_yn,
                                    text |-> document.doc.parsed_content,
                                    split_docs |-> split_docs,
                                    delete_calls |-> del.delete_calls,
                                    others_unchanged |-> others,
                                    own_unchanged |-> own,
                                    request_unchanged |-> r.request_unchanged,
                                    deduplicate |-> r.deduplicate]]
                            /\ UNCHANGED embed_last
    /\ UNCHANGED <<next_point, embed_no>>
    /\ UNCHANGED <<pdf_vars, store_vars, search_vars, request_vars>>

\* Lines 561-581: add_documents_to_vectorstore(split_docs, deduplicate=False)
\* adds the chunks and the call returns success, or the request raises and
\* the call returns failure.
VectorStoreAdds(e) ==
    /\ embedders[e].pc = "aadd_documents"
    /\ LET r == embedders[e]
           P == aadd_documents(points, r.split_docs, next_point)
       IN \/ /\ points' = P
             /\ next_point' = next_point + Len(r.split_docs)
             /\ EmbedReturns(e, EmbedResult(r, TRUE, TRUE, r.success_yn, r.text,
                                  Len(r.split_docs), r.delete_calls, 1, P,
                                  r.others_unchanged
                                  /\ PointsOfOthers(P, r.stock_code)
                                       = PointsOfOthers(points, r.stock_code),
                                  r.own_unchanged
                                  /\ PointsOf(P, r.stock_code)
                                       = PointsOf(points, r.stock_code)))
          \/ /\ EmbedReturns(e, EmbedResult(r, FALSE, TRUE, r.success_yn, r.text,
                                  0, r.delete_calls, 1, points, r.others_unchanged,
                                  r.own_unchanged))
             /\ UNCHANGED <<points, next_point>>
    /\ UNCHANGED embed_no
    /\ UNCHANGED <<pdf_vars, store_vars, search_vars, request_vars>>

\* The collection holds a long report of T1, with any success flag, and
\* maybe a complete one of T2; the vector store is empty.
EmbedInit ==
    /\ PdfIdle
    /\ db_connected = TRUE
    /\ \E flag \in SuccessFlags, others \in SUBSET {StoredDocument(2, "T2", "Y", LongText)} :
          docs = {StoredDocument(1, "T1", flag, LongText)} \cup others
    /\ next_id = 3
    /\ now = 1
    /\ call_no = 0
    /\ last = NoCall
    /\ prev = NoCall
    /\ last_writer = [t \in Tickers |-> 0]
    /\ writers = [w \in Writers |-> IdleWriter]
    /\ EmbedIdle
    /\ SearchIdle
    /\ RequestIdle

EmbedNext ==
    \/ \E e \in Embedders, t \in Tickers : EmbedCalls(e, t)
    \/ \E e \in Embedders : EmbedGetsDocument(e)
    \/ \E e \in Embedders : VectorStoreAdds(e)
    \/ \E t \in Tickers, run \in Runs :
          call_no < MaxEmbedStoreCalls /\ SaveProcessedDocument("w1", t, run)
    \/ \E id \in DocumentIds :
          call_no < MaxEmbedStoreCalls /\ DeleteDocument("w1", id)
    \/ ServerQueryPhase("w1")
    \/ ServerInsertPhase("w1")
    \/ WriterFindsOne("w1")
    \/ DeleteFindsOne("w1")
    \/ DeleteDeletesOne("w1")

SpecEmbed == EmbedInit /\ [][EmbedNext]_vars

\* ----------------------------------------------------------- claims, part 4
GateClosed == embed_last.returned /\ (~embed_last.found \/ embed_last.success_yn # "Y")

\* C9: an embed_and_store_document call that finds no document of the
\* ticker, or one whose success_yn is not "Y", returns a failure and has
\* sent no delete and no add to the vector store.
C9_GateBeforeVectorStore ==
    GateClosed => /\ ~embed_last.success
                  /\ embed_last.delete_calls = 0
                  /\ embed_last.add_calls = 0

\* The gate closed on a call for a ticker that has chunks in the vector
\* store, and they are still there.
C9_Witness ==
    /\ GateClosed
    /\ ~embed_last.success
    /\ PointsOf(points, embed_last.stock_code) # {}

\* The chunks a text gives, as (chunk_number, content) pairs.
ChunksOf(text) ==
    LET chunks == split_text(text) IN {<<i, chunks[i]>> : i \in 1..Len(chunks)}

\* C10: when embed_and_store_document returns success, the ticker's points
\* are exactly the chunks of the text the call read, one point per chunk,
\* and the call left the points of other tickers alone.
C10_FullReplace ==
    (embed_last.returned /\ embed_last.success) =>
        LET mine == PointsOf(embed_last.points_after, embed_last.stock_code) IN
        /\ {<<p.chunk_number, p.page_content>> : p \in mine} = ChunksOf(embed_last.text)
        /\ Cardinality(mine) = Cardinality(ChunksOf(embed_last.text))
        /\ embed_last.others_unchanged

\* =========================================================================
\* Part 5: re-embedding requests served one after the other, through
\* POST /embedding (embed_and_store_document alone) or POST /qdrant/store
\* (api/routers/qdrant_router.py, which checks and deletes first).
\* =========================================================================
AllEmbeddersIdle == \A e \in Embedders : embedders[e].pc = "idle"

\* qdrant_router.store_document_embedding lines 33-39, up to the first
\* await of embed_and_store_document: the existence check, the delete when
\* the ticker has points and deduplicate is set, then the service call.
StoreDocumentEmbedding(e, t, deduplicate) ==
    /\ embedders[e].pc = "idle"
    /\ embed_no < MaxEmbedCalls
    /\ \E raises \in BOOLEAN, f \in Faults :
          LET exists == check_document_exists(points, t, raises) IN
          points' = IF exists /\ deduplicate
                    THEN delete_documents_by_stock_code(points, t, f).points
                    ELSE points
    /\ embed_no' = embed_no + 1
    /\ embedders' = [embedders EXCEPT ![e] =
                        [pc |-> "get_document", stock_code |-> t, call |-> embed_no + 1,
                         request_unchanged |-> PointsOf(points', t) = PointsOf(points, t),
                         deduplicate |-> deduplicate]]
    /\ UNCHANGED <<next_point, embed_last>>
    /\ UNCHANGED <<pdf_vars, store_vars, search_vars, request_vars>>

\* Largest number of embedding requests of a sequential run.
MaxSeqEmbedCalls == 2

EmbedSeqNext ==
    \/ \E e \in Embedders, t \in Tickers :
          AllEmbeddersIdle /\ embed_no < MaxSeqEmbedCalls /\ EmbedCalls(e, t)
    \/ \E e \in Embedders, t \in Tickers, deduplicate \in BOOLEAN :
          /\ AllEmbeddersIdle
          /\ embed_no < MaxSeqEmbedCalls
          /\ StoreDocumentEmbedding(e, t, deduplicate)
    \/ \E e \in Embedders : EmbedGetsDocument(e)
    \/ \E e \in Embedders : VectorStoreAdds(e)
    \/ \E t \in Tickers, run \in Runs :
          call_no < MaxEmbedStoreCalls /\ SaveProcessedDocument("w1", t, run)
    \/ \E id \in DocumentIds :
          call_no < MaxEmbedStoreCalls /\ DeleteDocument("w1", id)
    \/ ServerQueryPhase("w1")
    \/ ServerInsertPhase("w1")
    \/ WriterFindsOne("w1")
    \/ DeleteFindsOne("w1")
    \/ DeleteDeletesOne("w1")

SpecEmbedSeq == EmbedInit /\ [][EmbedSeqNext]_vars

\* ----------------------------------------------------------- claims, part 5
\* C11: with re-embedding requests run one after the other, no two points
\* of the vector store have the same ticker and the same chunk_number.
C11_OneChunkPerNumber ==
    \A p \in points, q \in points :
        (p.stock_code = q.stock_code /\ p.chunk_number = q.chunk_number) => p = q

\* =========================================================================
\* Part 6: the gateway over a collection that already holds duplicates
\* (left by overlapping upserts, part 3) and documents without a ticker.
\* =========================================================================
\* A stored document of ticker t last updated at time u.
DocumentOf(id, t, u) ==
    [StoredDocument(id, t, Absent, LongText) EXCEPT !.updated_at = u]

\* Collections to start from: three documents of T1 next to a single one
\* of T2 and two without ticker; T1 and T2 both twice, T1 with equal
\* timestamps; no duplicates at all.
DuplicateCollections ==
    { { DocumentOf(1, "T1", 2), DocumentOf(2, "T1", 3), DocumentOf(3, "T1", 1),
        DocumentOf(4, "T2", 1), DocumentOf(5, Absent, 1), DocumentOf(6, Absent, 2) },
      { DocumentOf(1, "T1", 2), DocumentOf(2, "T1", 2),
        DocumentOf(3, "T2", 1), DocumentOf(4, "T2", 3) },
      { DocumentOf(1, "T1", 1), DocumentOf(2, "T2", 2), DocumentOf(3, Absent, 3) } }

CleanupInit ==
    /\ PdfIdle
    /\ EmbedIdle
    /\ SearchIdle
    /\ RequestIdle
    /\ db_connected \in BOOLEAN
    /\ docs \in DuplicateCollections
    /\ next_id = Cardinality(docs) + 1
    /\ now = 4
    /\ call_no = 0
    /\ last = NoCall
    /\ prev = NoCall
    /\ last_writer = [t \in Tickers |-> 0]
    /\ writers = [w \in Writers |-> IdleWriter]

CleanupNext ==
    \/ StoreNext
    \/ CleanupDeletesOne("w1")

SpecCleanup == CleanupInit /\ [][CleanupNext]_vars

\* ----------------------------------------------------------- claims, part 6
\* This step is the return of a cleanup_duplicate_documents call with counts.
CleanupReturns ==
    /\ last'.call # last.call
    /\ last'.op = "cleanup_duplicate_documents"
    /\ last'.ok

\* The collection as the returning call's aggregate read it.
CleanupBefore ==
    IF writers["w1"].pc = "cleanup_delete_one" THEN writers["w1"].docs_before
    ELSE docs

TickersOf(D) == {d.stock_code : d \in D} \ {Absent}

\* C12: a cleanup_duplicate_documents call leaves, of every ticker with
\* more than one document, exactly one document, one whose updated_at no
\* other document of the ticker exceeds; it leaves single documents and
\* documents without ticker as they are; it reports the number of tickers
\* that had more than one document and the number of documents removed;
\* afterwards every ticker has exactly one document.
C12_CleanupKeepsNewest ==
    [][CleanupReturns =>
        /\ \A t \in TickersOf(CleanupBefore) :
              /\ Cardinality(Matching(docs', t)) = 1
              /\ Matching(docs', t) \subseteq Matching(CleanupBefore, t)
              /\ \A kept \in Matching(docs', t), d \in Matching(CleanupBefore, t) :
                    kept.updated_at >= d.updated_at
        /\ Matching(docs', Absent) = Matching(CleanupBefore, Absent)
        /\ docs' \subseteq CleanupBefore
        /\ last'.id = Cardinality({t \in TickersOf(CleanupBefore) :
                                      Cardinality(Matching(CleanupBefore, t)) > 1})
        /\ last'.count_after = Cardinality(CleanupBefore) - Cardinality(docs')
    ]_vars

\* Three documents of one ticker: the call reported 1 ticker and 2 removed,
\* and the one updated last (id 2) is the one left.
C12_Witness ==
    /\ last.op = "cleanup_duplicate_documents"
    /\ last.ok
    /\ last.id = 1
    /\ last.count_after = 2
    /\ Matching(docs, "T1") = {DocumentOf(2, "T1", 3)}

\* =========================================================================
\* Part 7: LangChainEmbeddingService.hybrid_search.  Scores are in tenths,
\* weights in tenths, final scores in hundredths.
\* =========================================================================
\* Largest limit of a modelled search.
MaxLimit == 2

\* The defaults of hybrid_search (0.7 and 0.3) and the score search_keywords
\* gives every match (1.0).
vector_weight == 7
keyword_weight == 3
keyword_score == 10

\* The stored chunks a search can return: chunks 1 and 2 of document d1 and
\* chunk 1 of document d2.  metadata["document_id"] is the id of the source
\* document (create_langchain_documents lines 151-158), shared by its chunks.
Chunks ==
    { [chunk |-> "c1", document_id |-> "d1"],
      [chunk |-> "c2", document_id |-> "d1"],
      [chunk |-> "c3", document_id |-> "d2"] }

VectorScores == {5, 9}

\* One result dict of search_similar_documents / search_keywords.
SearchResult(c, score, search_type) ==
    [chunk |-> c.chunk, document_id |-> c.document_id, score |-> score,
     search_type |-> search_type, final_score |-> 0]

\* Result lists of at most n entries, no chunk twice.
ResultLists(results, n) ==
    {<<>>} \cup {<<r>> : r \in results}
    \cup (IF n < 2 THEN {}
          ELSE {<<p[1], p[2]>> : p \in {q \in results \X results : q[1].chunk # q[2].chunk}})

VectorResultLists(n) ==
    ResultLists({SearchResult(c, sc, "vector") : c \in Chunks, sc \in VectorScores}, n)

KeywordResultLists(n) ==
    ResultLists({SearchResult(c, keyword_score, "keyword") : c \in Chunks}, n)

\* Lines 674-676: every vector result, with final_score = score * vector_weight.
vector_part(vresults) ==
    [i \in 1..Len(vresults) |->
        [vresults[i] EXCEPT !.final_score = vresults[i].score * vector_weight]]

\* Lines 679-691, one keyword result: appended when its document_id is not
\* among those of the vector results, else added to the first combined
\* result with that document_id.
FirstWithDocument(combined, doc_id) ==
    CHOOSE i \in 1..Len(combined) :
        /\ combined[i].document_id = doc_id
        /\ \A j \in 1..(i - 1) : combined[j].document_id # doc_id

merge_keyword_result(combined, existing_ids, result) ==
    IF result.document_id \notin existing_ids
    THEN Append(combined, [result EXCEPT !.final_score = result.score * keyword_weight])
    ELSE LET i == FirstWithDocument(combined, result.document_id) IN
         [combined EXCEPT ![i].final_score = @ + result.score * keyword_weight,
                          ![i].search_type = "hybrid"]

RECURSIVE merge_keyword_results(_, _, _)
merge_keyword_results(combined, existing_ids, kresults) ==
    IF kresults = <<>> THEN combined
    ELSE merge_keyword_results(
             merge_keyword_result(combined, existing_ids, Head(kresults)),
             existing_ids, Tail(kresults))

combined_results(vresults, kresults) ==
    merge_keyword_results(vector_part(vresults),
                          {r.document_id : r \in Range(vresults)}, kresults)

\* Line 694: sort(key=final_score, reverse=True), a stable sort.
RECURSIVE InsertByFinalScore(_, _)
InsertByFinalScore(sorted, r) ==
    IF sorted = <<>> THEN <<r>>
    ELSE IF Head(sorted).final_score >= r.final_score
         THEN <<Head(sorted)>> \o InsertByFinalScore(Tail(sorted), r)
         ELSE <<r>> \o sorted

RECURSIVE SortByFinalScore(_)
SortByFinalScore(results) ==
    IF results = <<>> THEN <<>>
    ELSE InsertByFinalScore(SortByFinalScore(SubSeq(results, 1, Len(results) - 1)),
                            results[Len(results)])

\* Lines 694-697.
hybrid_results(vresults, kresults, limit) ==
    LET sorted == SortByFinalScore(combined_results(vresults, kresults)) IN
    SubSeq(sorted, 1, IF Len(sorted) < limit THEN Len(sorted) ELSE limit)

HybridSearchCalls(limit) ==
    /\ search.pc = "idle"
    /\ search' = [pc |-> "search_similar_documents", limit |-> limit]
    /\ UNCHANGED <<vector_results, keyword_results, final_results>>
    /\ UNCHANGED <<pdf_vars, store_vars, embed_vars, request_vars>>

\* search_similar_documents(query, limit): at most limit results, [] when
\* the store raises.
VectorSearchReturns(results) ==
    /\ search.pc = "search_similar_documents"
    /\ vector_results' = results
    /\ search' = [search EXCEPT !.pc = "search_keywords"]
    /\ UNCHANGED <<keyword_results, final_results>>
    /\ UNCHANGED <<pdf_vars, store_vars, embed_vars, request_vars>>

\* search_keywords(query, limit) returns and hybrid_search combines, sorts
\* and cuts (lines 671-700); or it raises and hybrid_search returns [].
KeywordSearchReturns(results) ==
    /\ search.pc = "search_keywords"
    /\ \/ /\ keyword_results' = results
          /\ final_results' = hybrid_results(vector_results, results, search.limit)
          /\ search' = [search EXCEPT !.pc = "returned"]
       \/ /\ keyword_results' = <<>>
          /\ final_results' = <<>>
          /\ search' = [search EXCEPT !.pc = "raised"]
    /\ UNCHANGED vector_results
    /\ UNCHANGED <<pdf_vars, store_vars, embed_vars, request_vars>>

SearchInit ==
    /\ PdfIdle
    /\ StoreIdle
    /\ EmbedIdle
    /\ SearchIdle
    /\ RequestIdle

SearchNext ==
    \/ \E limit \in 1..MaxLimit : HybridSearchCalls(limit)
    \/ \E results \in VectorResultLists(search.limit) : VectorSearchReturns(results)
    \/ \E results \in KeywordResultLists(search.limit) : KeywordSearchReturns(results)

SpecSearch == SearchInit /\ [][SearchNext]_vars

\* ----------------------------------------------------------- claims, part 7
\* C13: every returned result whose chunk is in both the vector and the
\* keyword results has final_score = vector score * vector_weight +
\* keyword score * keyword_weight, each counted once.
C13_HybridScore ==
    search.pc = "returned" =>
        \A i \in 1..Len(final_results) :
            \A v \in Range(vector_results), k \in Range(keyword_results) :
                (v.chunk = final_results[i].chunk /\ k.chunk = final_results[i].chunk)
                => final_results[i].final_score
                     = v.score * vector_weight + k.score * keyword_weight

\* =========================================================================
\* Part 8: one pipeline request end to end: POST /stock/process/{stock_code}
\* (stock_router.process_stock_pdf) or POST /pdf/download-and-store
\* (pdf_router.download_and_store_pdf): download, process_pdf_with_gpt of
\* part 1, then the save of part 2 and the response.
\* =========================================================================
Routes == {"process_stock_pdf", "download_and_store_pdf"}

\* The requests a route can get: a ticker on the stock route; the other
\* route downloads by URL and calls download_pdf without a stock_code.
Requests ==
    {[pc |-> "download_pdf", route |-> "process_stock_pdf", stock_code |-> t,
      status |-> 0, document_id |-> NoId, file_on_disk |-> FALSE] : t \in Tickers}
    \cup {[pc |-> "download_pdf", route |-> "download_and_store_pdf",
           stock_code |-> NoTicker, status |-> 0, document_id |-> NoId,
           file_on_disk |-> FALSE]}

\* What the handler passes to the save: the result of process_pdf_with_gpt
\* and the download's dict.  download_and_store_pdf puts the merged text
\* and the counts under pdf_data["metadata"] (lines 76-82), with no
\* "gpt_processing_result" key.
RunOfRequest ==
    [gpt |-> ret, pdf |-> pdf_data("a.pdf"), prompt_type |-> "default",
     has_gpt_processing_result |-> FALSE]

PipelineInit ==
    /\ readable \in BOOLEAN
    /\ pages \in 0..MaxPages
    /\ coord = "idle"
    /\ task = [i \in 1..pages |-> "none"]
    /\ gather_results = [i \in 1..pages |-> Pending]
    /\ completion_order = <<>>
    /\ calls = [i \in 1..pages |-> 0]
    /\ ret = NoResult
    /\ db_connected \in BOOLEAN
    /\ docs = {}
    /\ next_id = 1
    /\ now = 1
    /\ call_no = 0
    /\ last = NoCall
    /\ prev = NoCall
    /\ last_writer = [t \in Tickers |-> 0]
    /\ writers = [w \in Writers |-> IdleWriter]
    /\ EmbedIdle
    /\ SearchIdle
    /\ request \in Requests

\* pdf_service.download_pdf up to the opening of the file (lines 54-78):
\* the request is refused, answered with another status or content type or
\* with too large a content-length, and the handler answers 500 with no
\* file written; or the file is created, empty, and the body is awaited.
DownloadPdf ==
    /\ request.pc = "download_pdf"
    /\ \/ request' = [request EXCEPT !.pc = "download_body", !.file_on_disk = TRUE]
       \/ request' = [request EXCEPT !.pc = "responded", !.status = 500]
    /\ UNCHANGED <<pdf_vars, store_vars, embed_vars, search_vars>>

\* download_pdf lines 79-99, one await per chunk with the file on disk: the
\* body is written and process_pdf_with_gpt is called; or reading it raises
\* and the handler answers 500 with the file left as far as it was written;
\* or the file is as large as the limit, is unlinked (line 84) and the
\* handler answers 500.
DownloadBody ==
    /\ request.pc = "download_body"
    /\ \/ /\ request' = [request EXCEPT !.pc = "process_pdf_with_gpt"]
          /\ coord' = "split"
       \/ /\ request' = [request EXCEPT !.pc = "responded", !.status = 500]
          /\ UNCHANGED coord
       \/ /\ request' = [request EXCEPT !.pc = "responded", !.status = 500,
                                           !.file_on_disk = FALSE]
          /\ UNCHANGED coord
    /\ UNCHANGED <<readable, pages, task, gather_results, completion_order, calls, ret>>
    /\ UNCHANGED <<store_vars, embed_vars, search_vars>>

\* stock_router lines 57-61: save_processed_document(stock_code, gpt_result, pdf_data).
RouterSavesProcessed ==
    /\ request.pc = "process_pdf_with_gpt"
    /\ request.route = "process_stock_pdf"
    /\ coord = "returned"
    /\ call_no = 0
    /\ SaveProcessedDocument("w1", request.stock_code, RunOfRequest)

\* pdf_router line 85: save_pdf_document(pdf_data).
RouterSavesPdf ==
    /\ request.pc = "process_pdf_with_gpt"
    /\ request.route = "download_and_store_pdf"
    /\ coord = "returned"
    /\ call_no = 0
    /\ SavePdfDocument("w1", NoTicker, RunOfRequest)

\* pdf_service.cleanup_file: whether the file is still on disk after
\* os.remove, whose exception is logged and dropped (lines 298-302).
cleanup_file(remove_raises) == remove_raises

\* The handler's answer: 500 when process_pdf_with_gpt or the save raised;
\* the file is removed only after the save has returned (stock_router line
\* 65, pdf_router line 91), not in the except clause;
\* 200 with the document id on the stock route; on the other route building
\* the response from the stored document raises (it has no "metadata"
\* field, lines 88-101), which is answered with 500.
RouterResponds ==
    /\ request.pc = "process_pdf_with_gpt"
    /\ \/ /\ coord \in {"raised", "raised_extraction"}
          /\ request' = [request EXCEPT !.pc = "responded", !.status = 500]
       \/ /\ last # NoCall
          /\ \E remove_raises \in BOOLEAN :
                request' =
                   IF last.outcome = "returned" /\ request.route = "process_stock_pdf"
                   THEN [request EXCEPT !.pc = "responded", !.status = 200,
                                        !.document_id = last.id,
                                        !.file_on_disk = cleanup_file(remove_raises)]
                   ELSE IF last.outcome = "returned"
                   THEN [request EXCEPT !.pc = "responded", !.status = 500,
                                        !.file_on_disk = cleanup_file(remove_raises)]
                   ELSE [request EXCEPT !.pc = "responded", !.status = 500]
    /\ UNCHANGED <<pdf_vars, store_vars, embed_vars, search_vars>>

PipelineNext ==
    \/ DownloadPdf
    \/ DownloadBody
    \/ SplitPdfByPages
    \/ GatherStart
    \/ \E i \in 1..pages : PageTaskCalls(i)
    \/ \E i \in 1..pages, c \in Completions : PageTaskSettles(i, c)
    \/ GatherReturns
    \/ RouterSavesProcessed
    \/ RouterSavesPdf
    \/ ServerQueryPhase("w1")
    \/ ServerInsertPhase("w1")
    \/ InsertOne("w1")
    \/ RouterResponds

SpecPipeline == PipelineInit /\ [][PipelineNext]_vars

\* ----------------------------------------------------------- claims, part 8
\* The stock route has stored its document.
StoredByStockRoute ==
    /\ last.op = "save_processed_document"
    /\ last.outcome = "returned"
    /\ last.doc_after.exists

\* C14: the text stored by the stock route has exactly one section per page
\* result, in the order of the list (ascending pages), each with that
\* result's page_number and content; no section belongs to a failed page;
\* merging the same page results again gives the stored text.
C14_OneSectionPerPageResult ==
    StoredByStockRoute =>
        LET text == last.doc_after.doc.parsed_content
            page_results == ret.page_results
        IN /\ Len(text) = Len(page_results)
           /\ \A k \in 1..Len(text) :
                 /\ text[k].page_number = page_results[k].page_number
                 /\ text[k].content = section_content(page_results[k].gpt_response)
                 /\ text[k].page_number \notin Range(ret.failed_pages)
           /\ {text[k].page_number : k \in 1..Len(text)} = OkSet
           /\ combine_page_results(page_results) = text

\* Three pages, the middle one failed: two sections were stored.
C14_Witness ==
    /\ StoredByStockRoute
    /\ pages = 3
    /\ ret.failed_pages = <<2>>
    /\ Len(last.doc_after.doc.parsed_content) = 2

\* The response carries structured fields of its own.
HasStructuredFields(g) == g.type \in {"dict", "dict_with_raw_response"}

\* The content the stated order of preference gives: the structured fields
\* (in the response's string form) when there are any, else the raw text,
\* else the string form (of a JSON string: the string).
PreferredContent(g) ==
    IF HasStructuredFields(g) THEN "str_of_response"
    ELSE IF g.type = "raw" THEN "raw_response_text"
    ELSE IF g.type = "str" THEN "response_text"
    ELSE "str_of_response"

\* C15: a completion text that is not JSON becomes a page result holding it
\* under raw_response, and every stored section has the content preferred
\* in the order structured fields, raw text, string form.
C15_ContentPreference ==
    /\ \A c \in Completions :
          (c.call = "ok" /\ c.content = "text") =>
              /\ ~IsException(process_page_with_gpt(1, c))
              /\ process_page_with_gpt(1, c).gpt_response = RawResponse
    /\ StoredByStockRoute =>
          \A k \in 1..Len(ret.page_results) :
              last.doc_after.doc.parsed_content[k].content
                  = PreferredContent(ret.page_results[k].gpt_response)

\* The download-and-store route has stored its document.
StoredByPdfRoute ==
    /\ last.op = "save_pdf_document"
    /\ last.outcome = "returned"
    /\ WithId(docs, last.id) # {}

\* C16: the document stored by the download-and-store route has the merged
\* text and the page counts that save_processed_document stores for the
\* same result of process_pdf_with_gpt.
C16_BothPathsStoreSameMerge ==
    StoredByPdfRoute =>
        \A d \in WithId(docs, last.id) :
            LET p == processed_document("T1", ret, pdf_data("a.pdf"), now) IN
            /\ d.parsed_content = combine_page_results(ret.page_results)
            /\ d.parsed_content = p.parsed_content
            /\ d.total_pages = p.total_pages
            /\ d.successful_pages = p.successful_pages
            /\ d.failed_pages = p.failed_pages

\* C17: a save that returns a document id has written a document under
\* that id in that call, and a request answered 200 names a stored document.
C17_StoreFailurePropagates ==
    /\ (last.op \in UpsertOps /\ last.outcome = "returned") =>
          \E d \in WithId(docs, last.id) : d.written_by["updated_at"] = last.call
    /\ (request.pc = "responded" /\ request.status = 200) =>
          WithId(docs, request.document_id) # {}

\* C18: when the PDF cannot be read, process_pdf_with_gpt raises out of
\* split_pdf_by_pages: no page task is created, no completion call is made,
\* no result is returned, no document store call is made and nothing is
\* stored, and the request is answered with a failure.
C18_ExtractionFailureIsFatal ==
    ~readable =>
        /\ coord \in {"idle", "split", "raised_extraction"}
        /\ \A i \in 1..pages : task[i] = "none" /\ calls[i] = 0
        /\ completion_order = <<>>
        /\ ret = NoResult
        /\ call_no = 0
        /\ docs = {}
        /\ request.pc = "responded" => request.status = 500

\* Extraction of a three-page file failed and the request was answered.
C18_Witness ==
    /\ ~readable
    /\ pages = 3
    /\ coord = "raised_extraction"
    /\ request.pc = "responded"
    /\ request.status = 500
    /\ docs = {}

\* =========================================================================
\* Part 9: embedding texts of many lengths, one request after the other.
\* =========================================================================
\* Largest number of sections of a modelled text.
MaxSections == 12

TextOf(n) == [k \in 1..n |-> Section(k)]

ChunkingInit ==
    /\ PdfIdle
    /\ db_connected = TRUE
    /\ \E n \in 0..MaxSections : docs = {StoredDocument(1, "T1", "Y", TextOf(n))}
    /\ next_id = 2
    /\ now = 1
    /\ call_no = 0
    /\ last = NoCall
    /\ prev = NoCall
    /\ last_writer = [t \in Tickers |-> 0]
    /\ writers = [w \in Writers |-> IdleWriter]
    /\ EmbedIdle
    /\ SearchIdle
    /\ RequestIdle

ChunkingNext ==
    \/ AllEmbeddersIdle /\ EmbedCalls("e1", "T1")
    \/ EmbedGetsDocument("e1")
    \/ VectorStoreAdds("e1")

SpecChunking == ChunkingInit /\ [][ChunkingNext]_vars

\* ----------------------------------------------------------- claims, part 9
\* The number a digit sequence reads as (int(digits)).
RECURSIVE NumberOf(_)
NumberOf(ds) ==
    IF ds = <<>> THEN 0 ELSE 10 * NumberOf(SubSeq(ds, 1, Len(ds) - 1)) + ds[Len(ds)]

\* The chunk_id is the ticker, "_" and the number in at least four digits.
IsChunkIdOf(id, t, n) ==
    /\ id.stock_code = t
    /\ id.separator = "_"
    /\ NumberOf(id.digits) = n
    /\ Len(id.digits) >= 4
    /\ Len(id.digits) > 4 => id.digits[1] # 0

\* C19: the chunks an embedding is about to add are numbered 1..n in split
\* order, each chunk_id is its ticker, "_" and its number zero-padded to
\* four digits, and no two chunks of the embedding share a chunk_id; the
\* format keeps numbers apart beyond four digits too.
C19_ChunkNumbersSequential ==
    /\ \A e \in Embedders : embedders[e].pc = "aadd_documents" =>
          LET ds == embedders[e].split_docs
              chunks == split_text(embedders[e].text)
          IN /\ Len(ds) = Len(chunks)
             /\ \A i \in 1..Len(ds) :
                   /\ ds[i].chunk_number = i
                   /\ ds[i].page_content = chunks[i]
                   /\ IsChunkIdOf(ds[i].chunk_id, embedders[e].stock_code, i)
             /\ \A i \in 1..Len(ds), j \in 1..Len(ds) :
                   ds[i].chunk_id = ds[j].chunk_id => i = j
    /\ \A n \in {9, 10, 999, 1000, 9999, 10000, 10001, 99999, 100000} :
          IsChunkIdOf(chunk_id("T1", n), "T1", n)

\* An embedding of more than nine chunks is about to be added.
C19_Witness ==
    /\ embedders["e1"].pc = "aadd_documents"
    /\ Len(embedders["e1"].split_docs) = 11
    /\ embedders["e1"].split_docs[11].chunk_id.digits = <<0, 0, 1, 1>>

\* ---------------------------------------------------------- claims, part 10
\* A request of the log raised and a later request of the log is the same
\* request (same filter key and value).
Reissued(log) ==
    \E i \in 1..Len(log), j \in 1..Len(log) :
        /\ i < j
        /\ log[i].raised
        /\ log[j].key = log[i].key
        /\ log[j].value = log[i].value

\* C20: nothing is retried: a page's completion is requested at most once,
\* an embedding sends at most one add request, and a vector store request
\* that failed is not sent again within the same embedding.
C20_NoAutomaticRetry ==
    /\ \A i \in 1..pages : calls[i] <= 1
    /\ embed_last.returned =>
          /\ embed_last.add_calls <= 1
          /\ ~Reissued(embed_last.delete_log)

\* ---------------------------------------------------------- claims, part 11
\* C21: when process_pdf_with_gpt finishes and no page succeeded (all pages
\* failed, or the document has no page), it has returned, not raised, and
\* the result has successful_pages = 0, no page result, every page listed
\* as failed and an integrated_summary flagged as an error.
C21_NoSuccessStillReturns ==
    (Finished /\ OkSet = {}) =>
        /\ coord = "returned"
        /\ ret.returned
        /\ ret.successful_pages = 0
        /\ ret.page_results = <<>>
        /\ Len(ret.failed_pages) = pages
        /\ ret.integrated_summary.error

\* A three-page document all of whose pages failed has been returned.
C21_Witness ==
    /\ coord = "returned"
    /\ pages = MaxPages
    /\ FailedSet = 1..pages
    /\ ret.integrated_summary.error

\* ---------------------------------------------------------- claims, part 12
\* C22: every stored document has created_at <= updated_at after any
\* sequence of upserts and status updates (a document an upsert has just
\* inserted has the two equal).
C22_CreatedNotAfterUpdated ==
    \A d \in docs : d.created_at <= d.updated_at

\* ---------------------------------------------------------- claims, part 13
\* This step is the end of an update_document_status call whose request,
\* when it sent one, was answered.
UpdateStatusEnds ==
    /\ last'.call # last.call
    /\ last'.op = "update_document_status"
    /\ ~(writers["w1"].pc = "status_update_one" /\ last'.outcome = "raised")

\* C23: update_document_status(id, status) returns False and changes no
\* document when no document has the id; when a document has it the call
\* returns True, the document's status and updated_at are set and all its
\* other fields, and all other documents, stay as they were.
C23_UpdateStatusFrame ==
    [][UpdateStatusEnds =>
        LET hit == WithId(docs, last'.id) IN
        /\ last'.outcome = "returned"
        /\ hit = {} => ~last'.ok /\ docs' = docs
        /\ hit # {} =>
              /\ last'.ok
              /\ docs' \ WithId(docs', last'.id) = docs \ hit
              /\ \A old \in hit : \E new \in WithId(docs', last'.id) :
                    /\ new.status = writers["w1"].status
                    /\ new.updated_at = writers["w1"].updated_at
                    /\ \A f \in DataFields \ {"status", "updated_at"} : new[f] = old[f]
    ]_vars

\* =========================================================================
\* Part 14: the delete and exists endpoints of the vector store.
\* =========================================================================
\* Largest number of delete and exists requests of a run.
MaxDeleteCalls == 2

\* n points of ticker t that an earlier embedding stored under the ids
\* first_id, first_id + 1, ...
StoredChunks(t, first_id, n) ==
    { [id |-> first_id + i - 1,
       stock_code |-> t,
       chunk_number |-> i,
       chunk_id |-> chunk_id(t, i),
       page_content |-> <<Section(i)>>,
       document_id |-> 1] : i \in 1..n }

\* How many points of T1 and of T2 the store holds at the start.
ChunkCounts == {0, 1, 2, scroll_limit, scroll_limit + 1}
OtherChunkCounts == {0, 2}

DeleteInit ==
    /\ PdfIdle
    /\ StoreIdle
    /\ SearchIdle
    /\ RequestIdle
    /\ \E n \in ChunkCounts, m \in OtherChunkCounts :
          points = StoredChunks("T1", 1, n) \cup StoredChunks("T2", 2 * scroll_limit, m)
    /\ next_point = 3 * scroll_limit
    /\ embed_no = 0
    /\ embedders = [e \in Embedders |-> IdleEmbedder]
    /\ embed_last = NoEmbed

\* No request of the call raised.
NoFault(f) ==
    ~f.check /\ ~f.count /\ ~f.delete1 /\ ~f.delete2 /\ ~f.delete3 /\ ~f.check_after

\* DELETE /qdrant/documents/{stock_code}: the service call and its count
\* (history fields: what the store held before and holds after).
DeleteDocumentsByStockCode(t) ==
    /\ embed_no < MaxDeleteCalls
    /\ \E f \in Faults :
          LET del == delete_documents_by_stock_code(points, t, f) IN
          /\ points' = del.points
          /\ embed_last' =
                [returned |-> TRUE, op |-> "delete_documents_by_stock_code",
                 stock_code |-> t, value |-> del.deleted_count,
                 no_fault |-> NoFault(f),
                 stored_before |-> Cardinality(PointsOf(points, t)),
                 stored_after |-> Cardinality(PointsOf(del.points, t)),
                 others_unchanged |->
                     PointsOfOthers(del.points, t) = PointsOfOthers(points, t)]
    /\ embed_no' = embed_no + 1
    /\ UNCHANGED <<next_point, embedders>>
    /\ UNCHANGED <<pdf_vars, store_vars, search_vars, request_vars>>

\* GET /qdrant/documents/{stock_code}/exists.
CheckDocumentExists(t) ==
    /\ embed_no < MaxDeleteCalls
    /\ \E raises \in BOOLEAN :
          embed_last' =
                [returned |-> TRUE, op |-> "check_document_exists",
                 stock_code |-> t,
                 value |-> IF check_document_exists(points, t, raises) THEN 1 ELSE 0,
                 no_fault |-> ~raises,
                 stored_before |-> Cardinality(PointsOf(points, t)),
                 stored_after |-> Cardinality(PointsOf(points, t)),
                 others_unchanged |-> TRUE]
    /\ embed_no' = embed_no + 1
    /\ UNCHANGED <<points, next_point, embedders>>
    /\ UNCHANGED <<pdf_vars, store_vars, search_vars, request_vars>>

DeleteNext ==
    \/ \E t \in Tickers : DeleteDocumentsByStockCode(t)
    \/ \E t \in Tickers : CheckDocumentExists(t)

SpecDelete == DeleteInit /\ [][DeleteNext]_vars

\* ---------------------------------------------------------- claims, part 14
\* C24: with the vector store answering every request, a
\* delete_documents_by_stock_code(ticker) call leaves no chunk of the
\* ticker, returns the number of chunks it removed (0 when none were
\* stored), whatever that number is, and leaves the chunks of other tickers
\* as they were; a check_document_exists(ticker) that follows is false.
C24_DeleteRemovesAndCounts ==
    /\ (embed_last.returned /\ embed_last.op = "delete_documents_by_stock_code"
            /\ embed_last.no_fault) =>
          /\ embed_last.stored_after = 0
          /\ embed_last.value = embed_last.stored_before
          /\ embed_last.others_unchanged
    /\ (embed_last.returned /\ embed_last.op = "check_document_exists"
            /\ embed_last.no_fault) =>
          (embed_last.value = 1 <=> embed_last.stored_before > 0)

\* =========================================================================
\* Part 15: a pipeline run followed by embedding requests for its ticker.
\* =========================================================================
PipelineEmbedNext ==
    \/ PipelineNext
    \/ /\ request.pc = "responded"
       /\ request.status = 200
       /\ EmbedCalls("e1", request.stock_code)
    \/ EmbedGetsDocument("e1")

SpecPipelineEmbed == PipelineInit /\ [][PipelineEmbedNext]_vars

\* ---------------------------------------------------------- claims, part 15
\* C25: a stored document carries success flag "Y" exactly when its
\* failed_pages is empty; so after the stock route has stored a run in which
\* no page failed, an embedding request for the ticker finds the document
\* with flag "Y" and gets past the gate.
C25_SuccessFlagReachable ==
    /\ \A d \in docs : d.success_yn = "Y" <=> d.failed_pages = <<>>
    /\ (/\ request.pc = "responded"
        /\ request.status = 200
        /\ StoredByStockRoute
        /\ last.doc_after.doc.failed_pages = <<>>
        /\ embed_last.returned) =>
           /\ embed_last.found
           /\ embed_last.success_yn = "Y"

\* ---------------------------------------------------------- claims, part 16
\* C26: with requests run one after the other, an embed_and_store_document
\* call that returns a failure result has left the ticker's points in the
\* vector store as they were when it was called.
C26_FailureLeavesChunks ==
    (embed_last.returned /\ ~embed_last.success) => embed_last.own_unchanged

\* C27: a /qdrant/store/{stock_code} request with deduplicate=true that
\* fails because the ticker has no document, or a document whose success
\* flag is not "Y", has left the ticker's points as they were.
C27_GateFailureLeavesChunks ==
    (/\ embed_last.returned
     /\ embed_last.deduplicate
     /\ ~embed_last.success
     /\ ~embed_last.found \/ embed_last.success_yn # "Y") =>
        embed_last.request_unchanged

\* ---------------------------------------------------------- claims, part 17
\* C28: once all embed_and_store_document calls have returned, overlapping
\* ones included, the vector store holds no two points with the same ticker
\* and the same chunk_number.
C28_OverlapOneChunkPerNumber ==
    (AllEmbeddersIdle /\ embed_no >= 2) =>
        \A p \in points, q \in points :
            (p.stock_code = q.stock_code /\ p.chunk_number = q.chunk_number) => p = q

\* ---------------------------------------------------------- claims, part 18
\* This step is the successful return of an embed_and_store_document call.
EmbedSucceeds ==
    /\ embed_last' # embed_last
    /\ embed_last'.returned
    /\ embed_last'.success

\* C29: at the moment an embed_and_store_document call returns success, the
\* chunks stored for the ticker are the chunks of the parsed_content the
\* document store holds for the ticker at that moment, also when the
\* ticker was saved again while the embedding was under way.
C29_EmbedsCurrentContent ==
    [][EmbedSucceeds =>
        LET t == embed_last'.stock_code
            document == get_document_by_stock_code(docs', t)
        IN document.exists =>
              {<<p.chunk_number, p.page_content>> : p \in PointsOf(points', t)}
                  = ChunksOf(document.doc.parsed_content)
    ]_vars

\* ---------------------------------------------------------- claims, part 19
\* C30: once process_stock_pdf has answered, with success or after a failure
\* of a step that follows the download, the downloaded file is no longer on
\* disk.
C30_TemporaryFileRemoved ==
    (request.pc = "responded" /\ request.route = "process_stock_pdf") =>
        ~request.file_on_disk

====
